---- MODULE Spec2Model ----
\* Storage layer of meta-stremio (src/src/storage):
\*  - leader_discovery.py: the LeaderDiscovery watcher, its poll/health
\*    worker, the watchdog event thread and the pointer file kv-leader.info
\*    written by the external leader;
\*  - leader_storage.py: LeaderStorage, the consumer that connects to the
\*    leader's store from the watcher's callbacks, and its reader;
\*  - service_discovery.py: the discovery functions of ServiceDiscovery over
\*    the record files of the services directory, and its registrar
\*    (register, update_status, heartbeat, the heartbeat thread, unregister);
\*  - leader_client.py: LeaderClient, the light variant that reads the
\*    pointer file and fetches the descriptor from the /urls API.
\*
\* Threads take one step per shared-memory access (attribute read or write,
\* file read, callback invocation); LeaderDiscovery holds no lock.
\* The fields host, timestamp and pid of LeaderLockInfo are only carried and
\* printed by the code and are left out of the records.
EXTENDS Integers, Sequences, FiniteSets, TLC

\* ---------------------------------------------------------------- bounds

\* The callback log keeps the last MaxLog callbacks delivered.
MaxLog == 2

\* Cap of self._consecutive_failures: lost updates of the unlocked `+= 1`
\* let it pass max_failures without limit.
MaxCount == 4

\* Video entries every leader's store holds under the prefix.
NumVideos == 2

\* Files in the services directory.
MaxFiles == 2

\* Last reading of the clock, in seconds.
MaxNow == 61

\* File-change events of the light client's pointer file.
MaxEvents == 1

\* Last reading of time.time(), in seconds.
MaxTime == 6

\* Longest timeout passed to wait_for_leader, in seconds.
MaxWait == 2

\* ------------------------------------------------------------ constants

\* LeaderDiscovery.__init__(max_failures=3)
max_failures == 3

\* ServiceDiscovery.__init__(stale_threshold=60.0), in seconds
stale_threshold == 60

\* self._urls_cache_ttl of LeaderClient, in seconds
_urls_cache_ttl == 5

\* ------------------------------------------------------------ values

\* Python None for Optional[LeaderLockInfo].
None == [none |-> TRUE]

\* Pointer-file states: absent, not parseable as JSON, or a JSON object.
Missing == [kind |-> "missing"]
Corrupt == [kind |-> "corrupt"]

Json(a, h) == [kind |-> "json", api |-> a, http |-> h]

\* JSON objects the external coordinator (or a half-finished write) leaves:
\* two complete pointers and two lacking one endpoint.
Pointers ==
    { Json("A", "hA"), Json("B", "hB"), Json("A", ""), Json("", "hA") }

FileContents == {Missing, Corrupt} \cup Pointers

\* data and data.get('api') and data.get('http')
IsValid_ApiOnly(data) == data.kind = "json" /\ data.api # ""

IsValid(data) == data.kind = "json" /\ data.api # "" /\ data.http # ""

\* LeaderLockInfo(api=data['api'], http=data['http'], ...)
LeaderLockInfo(data) == [api |-> data.api, http |-> data.http]

\* self.leader_info.api != info.api
ApiDiffers_Always(cur, info) == TRUE

ApiDiffers(cur, info) == cur.api # info.api

\* self._consecutive_failures >= self.max_failures
ThresholdReached_OffByOne(n) == n > max_failures

ThresholdReached(n) == n >= max_failures

\* Callbacks as the registered receiver sees them.
Found(a) == [cb |-> "found", api |-> a]
Lost == [cb |-> "lost"]

Threads == {"main", "poll", "event"}

\* Threads that call methods of LeaderStorage: the watcher's threads through
\* the callbacks, a request thread of the server reading the catalog and one
\* asking get_status() for the dashboard.
Callers == Threads \cup {"reader", "status"}

\* ------------------------------------------------------------ state

VARIABLES
    file,                 \* content of locks/kv-leader.info
    watchdog,             \* WATCHDOG_AVAILABLE and the observer started
    leader_info,          \* self.leader_info
    consecutive_failures, \* self._consecutive_failures
    pc,                   \* position of each thread
    content,              \* per thread: what _check_for_leader read (content/data/info)
    is_new,               \* per thread: local is_new of _check_for_leader
    site,                 \* poll worker: call site of its current/last rescan
    probed,               \* poll worker: the leader_info object _is_leader_healthy read
    healthy,              \* poll worker: local healthy
    tmp,                  \* poll worker: value loaded by `+= 1`
    pending,              \* an event of kv-leader.info waits for the observer thread
    callbacks,            \* last MaxLog callbacks delivered (on-found / on-lost)
    polled,               \* history: a poll iteration began after the last file change
    stateAtChange,        \* history: the started watcher's state when the file last changed
    pat,                  \* history: probes since on-found matching fail,fail,ok,fail,fail,fail
    consumer,             \* a LeaderStorage owns the watcher (connect() registered its callbacks)
    override_url,         \* LeaderStorage._override_url ("" when not configured)
    client,               \* LeaderStorage._client
    connected,            \* LeaderStorage._connected
    lock,                 \* LeaderStorage._lock: "free" or the thread holding it
    hpc,                  \* per thread: position inside the LeaderStorage method it is calling
    videos,               \* reader thread: number of entries in its local list `videos`
    r_stale,              \* history: the handle the reader's scan iterates was closed
    services_dir,         \* files of {meta_core_path}/services in os.listdir order
    now,                  \* datetime.utcnow(), in seconds
    last_scan,            \* the last discovery call: what was asked, when, and its result
    prev_scan,            \* the discover_all_services call right before the last one
    record,               \* content of this process's record file {name}-{hostname}.json
    dir_mode,             \* the services directory: "ok", "missing" or "readonly"
    rpc,                  \* registrar: position of the calling thread and of the heartbeat thread
    rstack,               \* registrar: per thread, where its pending calls return to
    rlocal,               \* registrar: per thread, the locals info and status
    stop_event,           \* ServiceDiscovery._stop_event
    sd_started,           \* ServiceDiscovery._is_started
    raised,               \* the registrar operation that raised to its caller, or "none"
    observed,             \* what another process last read from the record file
    info_file,            \* LeaderClient: content of locks/kv-leader.info (plain text)
    up,                   \* the control API behind the pointer answers GET /urls with 200
    epoch,                \* file-change events of the pointer file so far
    taken,                \* events the observer thread has begun to handle
    handled,              \* events _on_file_change has finished handling
    cached_urls,          \* LeaderClient._cached_urls
    urls_cache_time,      \* LeaderClient._urls_cache_time
    clock,                \* time.time(), in seconds
    cpc,                  \* LeaderClient: position of the application thread and of the observer thread
    clocal,               \* LeaderClient: per thread, the locals of get_leader_info / _fetch_urls
    fetched,              \* history: time stamp of the last successful fetch no event has invalidated
    wait,                 \* wait_for_leader: its state, start_time, timeout and history
    ld_stop_event,        \* LeaderDiscovery._stop_event
    status_dict,          \* get_status(): its progress and the dict it builds
    part                  \* the component this process runs
\* The three history variables are recorded in the polling-only configuration
\* (no watchdog), where one poll interval is the only bound on reaction time.

vars ==
    << file, watchdog, leader_info, consecutive_failures, pc, content, is_new,
       site, probed, healthy, tmp, pending, callbacks, polled, stateAtChange, pat,
       consumer, override_url, client, connected, lock, hpc, videos, r_stale,
       services_dir, now, last_scan, prev_scan,
       record, dir_mode, rpc, rstack, rlocal, stop_event, sd_started, raised,
       observed,
       info_file, up, epoch, taken, handled, cached_urls, urls_cache_time,
       clock, cpc, clocal, fetched, wait, ld_stop_event, status_dict, part >>

pollLocals == << site, probed, healthy, tmp >>

history == << polled, stateAtChange, pat >>

consumerVars == << consumer, override_url, client, connected, lock >>

readerVars == << videos, r_stale >>

scanVars == << services_dir, now, last_scan, prev_scan >>

registrarVars ==
    << record, dir_mode, rpc, rstack, rlocal, stop_event, sd_started, raised,
       observed >>

\* What the watcher, the consumer and the discovery functions do not touch.
clientVars ==
    << info_file, up, epoch, taken, handled, cached_urls, urls_cache_time,
       clock, cpc, clocal, fetched, wait >>

\* What only stop(), get_status() and the choice of the component touch.
lateVars == << ld_stop_event, status_dict, part >>

apart == << registrarVars, clientVars, lateVars >>

\* What the steps of LeaderDiscovery do not touch.
elsewhere == << consumerVars, readerVars, scanVars, apart >>

\* has_leader()
has_leader == leader_info # None

\* self._is_started
is_started == pc["main"] = "started"

NoContent == [kind |-> "unread"]

\* The probe sequence of the scenario: fail, fail, success, fail, fail, fail.
Pattern == << FALSE, FALSE, TRUE, FALSE, FALSE, FALSE >>

PatDead == Len(Pattern) + 1

\* Python None for Optional[redis.Redis].
NoClient == [none |-> TRUE]

\* redis.from_url(url, decode_responses=True): a handle for that endpoint.
Handle(url) == [url |-> url]

\* LeaderStorage.__init__: no handle, not connected, the mutex free, no
\* handler and no read in progress.
Unconnected ==
    /\ client = NoClient
    /\ connected = FALSE
    /\ lock = "free"
    /\ hpc = [u \in Callers |-> "none"]
    /\ videos = 0
    /\ r_stale = FALSE

\* No discovery call made yet.
NoScan == [kind |-> "none"]

\* First reading of the clock.
FirstNow == stale_threshold - 1

\* No ServiceDiscovery in use: an empty services directory, nothing asked.
NoScanner ==
    /\ services_dir = << >>
    /\ now = FirstNow
    /\ last_scan = NoScan
    /\ prev_scan = NoScan

\* The two threads of the registrar: the caller of the ServiceDiscovery
\* methods and the 'service-heartbeat' thread.
RegThreads == {"caller", "beat"}

\* The locals of a thread outside every registrar method.
NoLocals == [info |-> None, status |-> ""]

\* ServiceDiscovery.__init__: nothing called yet, no heartbeat thread.
Constructed ==
    /\ rpc = [t \in RegThreads |-> IF t = "caller" THEN "idle" ELSE "off"]
    /\ rstack = [t \in RegThreads |-> << >>]
    /\ rlocal = [t \in RegThreads |-> NoLocals]
    /\ stop_event = FALSE
    /\ sd_started = FALSE
    /\ raised = "none"
    /\ observed = None

\* The two threads of the light client: the application calling it and the
\* watchdog observer thread running _on_file_change.
ClientThreads == {"app", "obs"}

\* The locals of get_leader_info and _fetch_urls before anything is read.
NoFetch ==
    [ctx |-> "", api_url |-> "", now |-> 0, hit |-> FALSE, urls |-> None,
     requested |-> FALSE, failed |-> FALSE, floor |-> 0]

\* No wait_for_leader call made.
NoWait == [state |-> "none", start |-> 0, timeout |-> 0, chance |-> FALSE]

\* LeaderClient.__init__
ClientCreated ==
    /\ taken = 0
    /\ handled = 0
    /\ cached_urls = None
    /\ urls_cache_time = 0
    /\ cpc = [t \in ClientThreads |-> "idle"]
    /\ clocal = [t \in ClientThreads |-> NoFetch]
    /\ fetched = None
    /\ wait = NoWait

\* get_status() not called.
NoStatus == [state |-> "none", leader |-> None, connected |-> FALSE]

\* The stop event of a new LeaderDiscovery is clear; no status asked.
Unstopped ==
    /\ ld_stop_event = FALSE
    /\ status_dict = NoStatus

\* No ServiceDiscovery announces itself and no LeaderClient is used.
NoRegistrar ==
    /\ record = Missing
    /\ dir_mode = "ok"
    /\ Constructed
    /\ info_file = Missing
    /\ up = FALSE
    /\ epoch = 0
    /\ clock = 0
    /\ ClientCreated

\* A LeaderDiscovery used on its own: its callbacks go to a recording receiver.
NoConsumer ==
    /\ consumer = FALSE
    /\ override_url = ""
    /\ Unconnected

\* LeaderDiscovery.__init__
Created ==
    /\ leader_info = None
    /\ consecutive_failures = 0
    /\ pc = [t \in Threads |-> IF t = "main" THEN "new" ELSE "off"]
    /\ content = [t \in Threads |-> NoContent]
    /\ is_new = [t \in Threads |-> FALSE]
    /\ site = "none"
    /\ probed = None
    /\ healthy = FALSE
    /\ tmp = 0
    /\ pending = FALSE
    /\ callbacks = << >>
    /\ polled = FALSE
    /\ stateAtChange = "unset"
    /\ pat = 0

\* __init__, with the callbacks registered before start() as
\* LeaderStorage.connect does. The pointer file may already exist.
Init ==
    /\ file \in FileContents
    /\ watchdog \in BOOLEAN
    /\ Created
    /\ NoConsumer
    /\ NoScanner
    /\ NoRegistrar
    /\ Unstopped
    /\ part = "watcher"

\* callback(...) : the receiver's log, cut to the last MaxLog entries.
Deliver(cb) ==
    LET s == Append(callbacks, cb)
    IN  IF Len(s) > MaxLog THEN Tail(s) ELSE s

\* The callback thread t invoked has returned: the recording receiver returns
\* at once (and logs), LeaderStorage's handler when it has run to its end.
Returned(t, cb) ==
    IF consumer
    THEN hpc[t] = "done" /\ callbacks' = callbacks
    ELSE callbacks' = Deliver(cb)

Goto(t, l) == pc' = [pc EXCEPT ![t] = l]

\* ------------------------------------------------------------ environment

\* The observer thread is running and receives events of the lock directory.
\* Every event of kv-leader.info leads to the same call, which reads the file
\* as it is then, so events that wait together are kept as one.
Observing == watchdog /\ pc["event"] # "off"

\* The state a started, polling-only watcher is in.
WatcherState ==
    CASE consumer /\ override_url # "" ->
           IF pc["main"] = "direct" /\ connected THEN "DirectConnected" ELSE "unset"
      [] watchdog \/ consumer \/ ~is_started -> "unset"
      [] has_leader -> "LeaderKnown"
      [] OTHER -> "NoLeader"

FileChanged(c) ==
    /\ file' = c
    /\ polled' = FALSE
    /\ stateAtChange' = WatcherState
    /\ pending' = Observing
    /\ UNCHANGED << watchdog, leader_info, consecutive_failures, pc, content,
                    is_new, pollLocals, callbacks, pat >>
    /\ UNCHANGED << elsewhere, hpc >>

\* The coordinator (re)writes the pointer file; a truncated write leaves Corrupt.
WritePointer == \E c \in FileContents \ {Missing} : FileChanged(c)

\* The pointer file is removed.
DeletePointer == file # Missing /\ FileChanged(Missing)

\* ------------------------------------------------------------ start()

\* LeaderStorage.connect(): `if self._override_url:`
UsesOverride_Never == FALSE

UsesOverride == override_url # ""

\* start(): not started yet; _ensure_lock_dir(); enters _check_for_leader().
Start ==
    /\ pc["main"] = "new"
    /\ ~UsesOverride
    /\ Goto("main", "r_read")
    /\ UNCHANGED << file, watchdog, leader_info, consecutive_failures, content,
                    is_new, pollLocals, pending, callbacks, history >>
    /\ UNCHANGED << elsewhere, hpc >>

\* start() after its rescan: _start_file_watcher(), _start_health_check(),
\* _is_started = True.
StartWorkers ==
    /\ pc["main"] = "spawn"
    /\ pc' = [t \in Threads |->
                CASE t = "main" -> "started"
                  [] t = "poll" -> "loop"
                  [] OTHER -> IF watchdog THEN "idle" ELSE "off"]
    /\ UNCHANGED << file, watchdog, leader_info, consecutive_failures, content,
                    is_new, pollLocals, pending, callbacks, history >>
    /\ UNCHANGED << elsewhere, hpc >>

\* ------------------------------------------------------------ _check_for_leader()

\* Where the caller of _check_for_leader goes on: start() to its workers,
\* health_check_loop to its wait, the observer thread to its queue.
ReturnPc(t) ==
    CASE t = "main" -> "spawn"
      [] t = "poll" -> "wait"
      [] OTHER -> "idle"

\* _check_for_leader() returns; the frame's locals go away.
Return(t) ==
    /\ Goto(t, ReturnPc(t))
    /\ content' = [content EXCEPT ![t] = NoContent]
    /\ is_new' = [is_new EXCEPT ![t] = FALSE]
    /\ IF t = "poll"
       THEN site' = "none" /\ probed' = None /\ healthy' = FALSE /\ tmp' = 0
       ELSE UNCHANGED pollLocals

\* open/read/json.loads and the validation of line 157. FileNotFoundError goes
\* to its handler; JSONDecodeError (printed) and an invalid object end the rescan.
CheckRead(t) ==
    /\ pc[t] = "r_read"
    /\ IF file = Missing \/ IsValid(file)
       THEN /\ content' = [content EXCEPT ![t] = file]
            /\ Goto(t, IF file = Missing THEN "r_nf" ELSE "r_isnew1")
            /\ UNCHANGED << is_new, pollLocals >>
       ELSE Return(t)
    /\ UNCHANGED << file, watchdog, leader_info, consecutive_failures, pending,
                    callbacks, history >>
    /\ UNCHANGED << elsewhere, hpc >>

\* is_new, first operand: self.leader_info is None
CheckIsNone(t) ==
    /\ pc[t] = "r_isnew1"
    /\ IF leader_info = None
       THEN is_new' = [is_new EXCEPT ![t] = TRUE] /\ Goto(t, "r_set")
       ELSE is_new' = is_new /\ Goto(t, "r_isnew2")
    /\ UNCHANGED << file, watchdog, leader_info, consecutive_failures, content,
                    pollLocals, pending, callbacks, history >>
    /\ UNCHANGED << elsewhere, hpc >>

\* is_new, second operand: self.leader_info.api != info.api. The attribute is
\* read again; on None the AttributeError is caught by `except Exception`.
CheckApi(t) ==
    /\ pc[t] = "r_isnew2"
    /\ IF leader_info = None
       THEN Return(t)
       ELSE /\ is_new' = [is_new EXCEPT
                            ![t] = ApiDiffers(leader_info, LeaderLockInfo(content[t]))]
            /\ Goto(t, "r_set")
            /\ UNCHANGED << content, pollLocals >>
    /\ UNCHANGED << file, watchdog, leader_info, consecutive_failures, pending,
                    callbacks, history >>
    /\ UNCHANGED << elsewhere, hpc >>

\* self.leader_info = info
CheckSetLeader(t) ==
    /\ pc[t] = "r_set"
    /\ leader_info' = LeaderLockInfo(content[t])
    /\ Goto(t, "r_reset")
    /\ UNCHANGED << file, watchdog, consecutive_failures, content, is_new,
                    pollLocals, pending, callbacks, history >>
    /\ UNCHANGED << elsewhere, hpc >>

\* self._consecutive_failures = 0
CheckResetFailures(t) ==
    /\ pc[t] = "r_reset"
    /\ consecutive_failures' = 0
    /\ Goto(t, "r_cb")
    /\ UNCHANGED << file, watchdog, leader_info, content, is_new, pollLocals,
                    pending, callbacks, history >>
    /\ UNCHANGED << elsewhere, hpc >>

\* if is_new: self._on_leader_found_callback(info); the rescan returns.
CheckNotifyFound(t) ==
    /\ pc[t] = "r_cb"
    /\ IF is_new[t]
       THEN Returned(t, Found(content[t].api)) /\ pat' = 0
       ELSE callbacks' = callbacks /\ pat' = pat
    /\ hpc' = [hpc EXCEPT ![t] = "none"]
    /\ Return(t)
    /\ UNCHANGED << file, watchdog, leader_info, consecutive_failures, pending,
                    polled, stateAtChange >>
    /\ UNCHANGED elsewhere

\* except FileNotFoundError: if self.leader_info:
CheckNotFound(t) ==
    /\ pc[t] = "r_nf"
    /\ IF leader_info # None
       THEN Goto(t, "r_lost_set") /\ UNCHANGED << content, is_new, pollLocals >>
       ELSE Return(t)
    /\ UNCHANGED << file, watchdog, leader_info, consecutive_failures, pending,
                    callbacks, history >>
    /\ UNCHANGED << elsewhere, hpc >>

\* _handle_leader_lost() from the rescan: self.leader_info = None
CheckLostClear(t) ==
    /\ pc[t] = "r_lost_set"
    /\ leader_info' = None
    /\ Goto(t, "r_lost_cb")
    /\ UNCHANGED << file, watchdog, consecutive_failures, content, is_new,
                    pollLocals, pending, callbacks, history >>
    /\ UNCHANGED << elsewhere, hpc >>

\* _handle_leader_lost() from the rescan: self._on_leader_lost_callback();
\* the rescan returns.
CheckLostNotify(t) ==
    /\ pc[t] = "r_lost_cb"
    /\ Returned(t, Lost)
    /\ hpc' = [hpc EXCEPT ![t] = "none"]
    /\ Return(t)
    /\ UNCHANGED << file, watchdog, leader_info, consecutive_failures, pending,
                    history >>
    /\ UNCHANGED elsewhere

_check_for_leader(t) ==
    \/ CheckRead(t)
    \/ CheckIsNone(t)
    \/ CheckApi(t)
    \/ CheckSetLeader(t)
    \/ CheckResetFailures(t)
    \/ CheckNotifyFound(t)
    \/ CheckNotFound(t)
    \/ CheckLostClear(t)
    \/ CheckLostNotify(t)

\* ------------------------------------------------------------ health_check_loop

\* Loop head: `while not self._stop_event.is_set():`, then
\* `if not self.leader_info:` calls the rescan, else goes on to probe.
PollLoop_Deaf ==
    /\ pc["poll"] = "loop"
    /\ polled' = (~watchdog /\ ~consumer)
    /\ IF leader_info = None
       THEN site' = "top" /\ Goto("poll", "r_read")
       ELSE site' = site /\ Goto("poll", "probe")
    /\ UNCHANGED << file, watchdog, leader_info, consecutive_failures, content,
                    is_new, probed, healthy, tmp, pending, callbacks,
                    stateAtChange, pat >>
    /\ UNCHANGED << elsewhere, hpc >>

PollLoop ==
    /\ pc["poll"] = "loop"
    /\ ~ld_stop_event
    /\ polled' = (~watchdog /\ ~consumer)
    /\ IF leader_info = None
       THEN site' = "top" /\ Goto("poll", "r_read")
       ELSE site' = site /\ Goto("poll", "probe")
    /\ UNCHANGED << file, watchdog, leader_info, consecutive_failures, content,
                    is_new, probed, healthy, tmp, pending, callbacks,
                    stateAtChange, pat >>
    /\ UNCHANGED << elsewhere, hpc >>

\* History of the verdicts against the scenario's probe sequence.
NextPat(h) ==
    CASE watchdog \/ consumer -> pat
      [] pat < Len(Pattern) /\ Pattern[pat + 1] = h -> pat + 1
      [] OTHER -> PatDead

\* _is_leader_healthy(): False without a leader, else GET {http}/health of the
\* leader_info read here; any answer or failure of the network is possible.
PollProbe ==
    /\ pc["poll"] = "probe"
    /\ probed' = leader_info
    /\ IF leader_info = None
       THEN healthy' = FALSE /\ pat' = pat
       ELSE \E h \in BOOLEAN : healthy' = h /\ pat' = NextPat(h)
    /\ Goto("poll", "apply")
    /\ UNCHANGED << file, watchdog, leader_info, consecutive_failures, content,
                    is_new, site, tmp, pending, callbacks, polled, stateAtChange >>
    /\ UNCHANGED << elsewhere, hpc >>

\* if healthy: self._consecutive_failures = 0, and the iteration waits;
\* else the load of `self._consecutive_failures += 1`.
PollApply ==
    /\ pc["poll"] = "apply"
    /\ IF healthy
       THEN /\ consecutive_failures' = 0
            /\ tmp' = 0 /\ probed' = None /\ healthy' = FALSE
            /\ Goto("poll", "wait")
       ELSE /\ consecutive_failures' = consecutive_failures
            /\ tmp' = consecutive_failures /\ probed' = probed /\ healthy' = healthy
            /\ Goto("poll", "inc_write")
    /\ UNCHANGED << file, watchdog, leader_info, content, is_new, site, pending,
                    callbacks, history >>
    /\ UNCHANGED << elsewhere, hpc >>

\* The store of `self._consecutive_failures += 1`.
PollIncrement ==
    /\ pc["poll"] = "inc_write"
    /\ tmp + 1 <= MaxCount
    /\ consecutive_failures' = tmp + 1
    /\ Goto("poll", "chk")
    /\ UNCHANGED << file, watchdog, leader_info, content, is_new, pollLocals,
                    pending, callbacks, history >>
    /\ UNCHANGED << elsewhere, hpc >>

\* if self._consecutive_failures >= self.max_failures: else the iteration waits.
PollThreshold ==
    /\ pc["poll"] = "chk"
    /\ IF ThresholdReached(consecutive_failures)
       THEN Goto("poll", "t_lost_set") /\ UNCHANGED pollLocals
       ELSE /\ Goto("poll", "wait")
            /\ tmp' = 0 /\ probed' = None /\ healthy' = FALSE /\ site' = site
    /\ UNCHANGED << file, watchdog, leader_info, consecutive_failures, content,
                    is_new, pending, callbacks, history >>
    /\ UNCHANGED << elsewhere, hpc >>

\* _handle_leader_lost() at the threshold: self.leader_info = None
PollLostClear ==
    /\ pc["poll"] = "t_lost_set"
    /\ leader_info' = None
    /\ Goto("poll", "t_lost_cb")
    /\ UNCHANGED << file, watchdog, consecutive_failures, content, is_new,
                    pollLocals, pending, callbacks, history >>
    /\ UNCHANGED << elsewhere, hpc >>

\* _handle_leader_lost() at the threshold: the on-lost callback; then
\* "Try to find new leader": self._check_for_leader().
PollLostNotify ==
    /\ pc["poll"] = "t_lost_cb"
    /\ Returned("poll", Lost)
    /\ hpc' = [hpc EXCEPT !["poll"] = "none"]
    /\ site' = "threshold"
    /\ Goto("poll", "r_read")
    /\ UNCHANGED << file, watchdog, leader_info, consecutive_failures, content,
                    is_new, probed, healthy, tmp, pending, history >>
    /\ UNCHANGED elsewhere

\* self._stop_event.wait(self.health_check_interval) elapses.
PollWait ==
    /\ pc["poll"] = "wait"
    /\ Goto("poll", "loop")
    /\ UNCHANGED << file, watchdog, leader_info, consecutive_failures, content,
                    is_new, pollLocals, pending, callbacks, history >>
    /\ UNCHANGED << elsewhere, hpc >>

health_check_loop ==
    \/ PollLoop
    \/ PollProbe
    \/ PollApply
    \/ PollIncrement
    \/ PollThreshold
    \/ PollLostClear
    \/ PollLostNotify
    \/ PollWait
    \/ _check_for_leader("poll")

\* ------------------------------------------------------------ stop()

\* stop() has called self._file_observer.stop(): the observer thread
\* dispatches no further event.
ObserverStopped == pc["main"] \in {"stopped", "x_redis", "disconnected"}

\* What stop() and the end of the workers leave alone.
beyondStop ==
    << file, watchdog, leader_info, consecutive_failures, content, is_new,
       pollLocals, pending, callbacks, history, consumerVars, readerVars,
       scanVars, registrarVars, clientVars, hpc, status_dict, part >>

\* `while not self._stop_event.is_set():` is false: health_check_loop returns
\* and the thread ends.
PollStop ==
    /\ pc["poll"] = "loop"
    /\ ld_stop_event
    /\ Goto("poll", "off")
    /\ UNCHANGED << beyondStop, ld_stop_event >>

\* The observer thread ends once stopped, after the handler it was running.
ObserverEnd ==
    /\ pc["event"] = "idle"
    /\ ObserverStopped
    /\ Goto("event", "off")
    /\ UNCHANGED << beyondStop, ld_stop_event >>

\* join(timeout=2.0) of a thread returns when the thread has ended or, with
\* timeouts, after two seconds.
Joined(t, timeouts) == timeouts \/ pc[t] = "off"

\* stop(): self._stop_event.set(); join of the health-check thread; stop and
\* join of the observer; self._is_started = False.
stop(timeouts) ==
    \/ /\ pc["main"] = "started"
       /\ ld_stop_event' = TRUE
       /\ Goto("main", "j_poll")
       /\ UNCHANGED beyondStop
    \/ /\ pc["main"] = "j_poll"
       /\ Joined("poll", timeouts)
       /\ Goto("main", "j_obs")
       /\ UNCHANGED << beyondStop, ld_stop_event >>
    \/ /\ pc["main"] = "j_obs"
       /\ Goto("main", "stopped")
       /\ UNCHANGED << beyondStop, ld_stop_event >>

\* start() called again on the stopped watcher, its old threads ended:
\* _is_started is False, so start() runs as the first time.
Restart ==
    /\ pc["main"] = "stopped"
    /\ ~consumer
    /\ pc["poll"] = "off" /\ pc["event"] = "off"
    /\ Goto("main", "r_read")
    /\ UNCHANGED << beyondStop, ld_stop_event >>

\* ------------------------------------------------------------ LockFileHandler

\* on_modified / on_created / on_deleted for kv-leader.info: the observer
\* thread takes the waiting event and calls _check_for_leader.
LockFileHandler ==
    /\ pc["event"] = "idle"
    /\ ~ObserverStopped
    /\ pending
    /\ pending' = FALSE
    /\ Goto("event", "r_read")
    /\ UNCHANGED << file, watchdog, leader_info, consecutive_failures, content,
                    is_new, pollLocals, callbacks, history >>
    /\ UNCHANGED << elsewhere, hpc >>

\* ------------------------------------------------------------ LeaderStorage

Call(u, l) == hpc' = [hpc EXCEPT ![u] = l]

discoveryVars ==
    << file, watchdog, leader_info, consecutive_failures, pc, content, is_new,
       pollLocals, pending, callbacks, history >>

\* The reader is between scan_iter() and the end of its loop.
Scanning == hpc["reader"] = "g_key"

\* connect() with an override: _connect_to_redis(self._override_url), no watcher.
ConnectOverride ==
    /\ pc["main"] = "new"
    /\ consumer
    /\ UsesOverride
    /\ Goto("main", "direct")
    /\ Call("main", "c_lock")
    /\ UNCHANGED << file, watchdog, leader_info, consecutive_failures, content,
                    is_new, pollLocals, pending, callbacks, history >>
    /\ UNCHANGED elsewhere

\* The url _connect_to_redis is called with: info.api or the override.
ConnectUrl(t) ==
    IF pc[t] = "direct" THEN override_url ELSE content[t].api

\* self._on_leader_found_callback(info) -> _on_leader_found -> _connect_to_redis
FoundCall(t) ==
    /\ consumer
    /\ pc[t] = "r_cb" /\ is_new[t]
    /\ hpc[t] = "none"
    /\ Call(t, "c_lock")
    /\ UNCHANGED << discoveryVars, elsewhere >>

\* self._on_leader_lost_callback() -> _on_leader_lost -> _disconnect_redis
LostCall(t) ==
    /\ consumer
    /\ pc[t] \in {"r_lost_cb", "t_lost_cb"}
    /\ hpc[t] = "none"
    /\ Call(t, "d_lock")
    /\ UNCHANGED << discoveryVars, elsewhere >>

\* `with self._lock:` entered; threading.Lock is not reentrant.
Acquire(u, l) ==
    /\ lock = "free"
    /\ lock' = u
    /\ Call(u, l)
    /\ UNCHANGED << discoveryVars, scanVars, apart, consumer, override_url, client, connected,
                    readerVars >>

\* The `with self._lock:` block is left.
Release(u, l) ==
    /\ lock' = "free"
    /\ Call(u, l)
    /\ UNCHANGED << discoveryVars, scanVars, apart, consumer, override_url, client, connected,
                    readerVars >>

\* _disconnect_redis_unlocked: if self._client: close(); self._client = None
CloseHandle(u, l) ==
    /\ client' = NoClient
    /\ r_stale' = (r_stale \/ (Scanning /\ client # NoClient))
    /\ Call(u, l)
    /\ UNCHANGED << discoveryVars, scanVars, apart, consumer, override_url, connected, lock, videos >>

\* _disconnect_redis_unlocked: self._connected = False
FlagOff_Skip(u, l) ==
    /\ Call(u, l)
    /\ UNCHANGED << discoveryVars, scanVars, apart, consumerVars, readerVars >>

FlagOff(u, l) ==
    /\ connected' = FALSE
    /\ Call(u, l)
    /\ UNCHANGED << discoveryVars, scanVars, apart, consumer, override_url, client, lock, readerVars >>

ConnectLock(t) == hpc[t] = "c_lock" /\ Acquire(t, "c_close")

ConnectClose(t) == hpc[t] = "c_close" /\ CloseHandle(t, "c_flag")

ConnectFlagOff(t) == hpc[t] = "c_flag" /\ FlagOff(t, "c_open")

\* self._client = redis.from_url(url, decode_responses=True)
ConnectOpen(t) ==
    /\ hpc[t] = "c_open"
    /\ client' = Handle(ConnectUrl(t))
    /\ Call(t, "c_ping")
    /\ UNCHANGED << discoveryVars, scanVars, apart, consumer, override_url, connected, lock, readerVars >>

\* self._client.ping(): answers, or raises into `except Exception`.
ConnectPing(t) ==
    /\ hpc[t] = "c_ping"
    /\ \E ok \in BOOLEAN : Call(t, IF ok THEN "c_set" ELSE "c_fail")
    /\ UNCHANGED << discoveryVars, elsewhere >>

\* self._connected = True
ConnectSet(t) ==
    /\ hpc[t] = "c_set"
    /\ connected' = TRUE
    /\ Call(t, "c_ready")
    /\ UNCHANGED << discoveryVars, scanVars, apart, consumer, override_url, client, lock, readerVars >>

\* self._notify_ready(), inside the `with` block: each registered callback is
\* called; a callback returns, or first asks the storage is_connected().
ConnectNotifyReady(t) ==
    /\ hpc[t] = "c_ready"
    /\ \E asks \in BOOLEAN : Call(t, IF asks THEN "i_lock" ELSE "c_unlock")
    /\ UNCHANGED << discoveryVars, elsewhere >>

\* except Exception: self._client = None; self._connected = False
ConnectFail(t) ==
    /\ hpc[t] = "c_fail"
    /\ client' = NoClient
    /\ connected' = FALSE
    /\ Call(t, "c_unlock")
    /\ UNCHANGED << discoveryVars, scanVars, apart, consumer, override_url, lock, readerVars >>

ConnectUnlock(t) == hpc[t] = "c_unlock" /\ Release(t, "done")

_connect_to_redis(t) ==
    \/ ConnectLock(t)
    \/ ConnectClose(t)
    \/ ConnectFlagOff(t)
    \/ ConnectOpen(t)
    \/ ConnectPing(t)
    \/ ConnectSet(t)
    \/ ConnectNotifyReady(t)
    \/ ConnectFail(t)
    \/ ConnectUnlock(t)

DisconnectLock(t) == hpc[t] = "d_lock" /\ Acquire(t, "d_close")

DisconnectClose(t) == hpc[t] = "d_close" /\ CloseHandle(t, "d_flag")

DisconnectFlagOff(t) == hpc[t] = "d_flag" /\ FlagOff(t, "d_unlock")

\* _disconnect_redis() returns into _on_leader_lost, which notifies, or into
\* disconnect().
DisconnectUnlock(t) ==
    hpc[t] = "d_unlock" /\ Release(t, IF pc[t] = "x_redis" THEN "x_done" ELSE "d_notify")

\* self._notify_disconnect(), after _disconnect_redis() has returned.
NotifyDisconnect(t) ==
    /\ hpc[t] = "d_notify"
    /\ Call(t, "done")
    /\ UNCHANGED << discoveryVars, elsewhere >>

_on_leader_lost(t) ==
    \/ DisconnectLock(t)
    \/ DisconnectClose(t)
    \/ DisconnectFlagOff(t)
    \/ DisconnectUnlock(t)
    \/ NotifyDisconnect(t)

\* disconnect(): self._leader_discovery.stop() has returned;
\* self._leader_discovery = None, then self._disconnect_redis().
disconnect ==
    /\ consumer
    /\ \/ /\ pc["main"] = "stopped"
          /\ hpc["main"] = "none"
          /\ Goto("main", "x_redis")
          /\ Call("main", "d_lock")
       \/ /\ pc["main"] = "x_redis"
          /\ hpc["main"] = "x_done"
          /\ Goto("main", "disconnected")
          /\ Call("main", "none")
    /\ UNCHANGED << file, watchdog, leader_info, consecutive_failures, content,
                    is_new, pollLocals, pending, callbacks, history >>
    /\ UNCHANGED elsewhere

\* is_connected(): `with self._lock:`
IsConnectedLock(u) == hpc[u] = "i_lock" /\ Acquire(u, "i_check")

\* Where is_connected() returns to: get_all_videos goes on to scan or returns
\* [], a ready callback returns into _notify_ready.
AfterIsConnected(u, answer) ==
    CASE u = "reader" -> IF answer THEN "g_scan" ELSE "none"
      [] u = "status" -> IF answer THEN "s_count" ELSE "s_false"
      [] OTHER -> "c_unlock"

\* is_connected() under the lock: False without flag or handle, else ping();
\* a failed ping clears the flag. The lock is released on return.
IsConnectedCheck(u) ==
    /\ hpc[u] = "i_check"
    /\ IF ~connected \/ client = NoClient
       THEN connected' = connected /\ Call(u, AfterIsConnected(u, FALSE))
       ELSE \E ok \in BOOLEAN :
              /\ connected' = ok
              /\ Call(u, AfterIsConnected(u, ok))
    /\ lock' = "free"
    /\ UNCHANGED << discoveryVars, scanVars, apart, consumer, override_url, client, readerVars >>

is_connected(u) == IsConnectedLock(u) \/ IsConnectedCheck(u)

\* get_all_videos() is called: `if not self.is_connected(): return []`
ReadStart ==
    /\ consumer
    /\ hpc["reader"] = "none"
    /\ Call("reader", "i_lock")
    /\ UNCHANGED << discoveryVars, elsewhere >>

\* videos = []; self._client.scan_iter(pattern): the iterator keeps the handle
\* it was made from; without a handle the AttributeError is caught and printed.
ReadScan ==
    /\ hpc["reader"] = "g_scan"
    /\ Call("reader", IF client = NoClient THEN "g_done" ELSE "g_key")
    /\ r_stale' = FALSE
    /\ videos' = 0
    /\ UNCHANGED << discoveryVars, scanVars, apart, consumerVars >>

\* One round of the loop: the next key from the iterator, then
\* self._client.hget / hgetall on the handle of that moment. Without a handle
\* the AttributeError ends the loop; on a closed handle the iterator reconnects
\* to the endpoint it was made for and may raise,
\* whose old leader may be gone. Every store is taken to hold the same keys.
ReadKey ==
    /\ hpc["reader"] = "g_key"
    /\ \E outcome \in {"append", "raise"} :
         /\ outcome = "append" => client # NoClient
         /\ outcome = "raise" => (r_stale \/ client = NoClient)
         /\ videos' = IF outcome = "append" THEN videos + 1 ELSE videos
         /\ Call("reader",
                 IF outcome = "raise" \/ videos' = NumVideos
                 THEN "g_done" ELSE "g_key")
    /\ UNCHANGED << discoveryVars, scanVars, apart, consumerVars, r_stale >>

\* videos.sort(...); return videos
ReadReturn ==
    /\ hpc["reader"] = "g_done"
    /\ Call("reader", "none")
    /\ videos' = 0
    /\ r_stale' = FALSE
    /\ UNCHANGED << discoveryVars, scanVars, apart, consumerVars >>

get_all_videos ==
    \/ ReadStart
    \/ is_connected("reader")
    \/ ReadScan
    \/ ReadKey
    \/ ReadReturn

\* self._leader_discovery is set: connect() has created the watcher and
\* disconnect() has not dropped it.
_leader_discovery ==
    consumer /\ pc["main"] \notin {"new", "direct", "x_redis", "disconnected"}

\* get_status(): the leader of the watcher if there is one, is_connected(),
\* and when connected get_video_count() (which asks is_connected() again) and
\* self._client.info('memory') inside try / except Exception.
get_status ==
    /\ consumer
    /\ \/ /\ hpc["status"] = "none"
          /\ status_dict' = [state |-> "asked",
                             leader |-> IF _leader_discovery THEN leader_info ELSE None,
                             connected |-> FALSE]
          /\ Call("status", "i_lock")
          /\ UNCHANGED << connected, lock >>
       \/ /\ hpc["status"] = "s_count"
          /\ lock = "free"
          /\ IF ~connected \/ client = NoClient
             THEN connected' = connected
             ELSE \E ok \in BOOLEAN : connected' = ok
          /\ status_dict' = [status_dict EXCEPT !.state = "returned", !.connected = TRUE]
          /\ Call("status", "none")
          /\ UNCHANGED lock
       \/ /\ hpc["status"] = "s_false"
          /\ status_dict' = [status_dict EXCEPT !.state = "returned"]
          /\ Call("status", "none")
          /\ UNCHANGED << connected, lock >>
    /\ UNCHANGED << discoveryVars, scanVars, registrarVars, clientVars,
                    consumer, override_url, client, readerVars, ld_stop_event, part >>

\* ------------------------------------------------------------ specification

MainStep == Start \/ StartWorkers \/ _check_for_leader("main")

EventStep == LockFileHandler \/ _check_for_leader("event")

Environment == WritePointer \/ DeletePointer

Next == MainStep \/ health_check_loop \/ EventStep \/ Environment

Spec == Init /\ [][Next]_vars

\* A thread is inside a handler (between two of its rest points).
Busy(t) ==
    pc[t] \notin {"new", "started", "off", "idle", "wait",
                  "j_poll", "j_obs", "stopped", "disconnected"}

Alone(t) == \A u \in Threads \ {t} : ~Busy(u)

\* The same steps with every handler run to completion before another thread
\* starts one: rescans and probes executed one after another.
SeqNext ==
    \/ Alone("main") /\ MainStep
    \/ Alone("poll") /\ health_check_loop
    \/ Alone("event") /\ EventStep
    \/ Environment

SeqSpec == Init /\ [][SeqNext]_vars

\* What each thread of the watcher does when the watcher can be stopped;
\* join() waits for the end of the thread.
StopStep(t) ==
    \/ t = "main" /\ (MainStep \/ stop(FALSE))
    \/ t = "poll" /\ (health_check_loop \/ PollStop)
    \/ t = "event" /\ (EventStep \/ ObserverEnd)

\* Pointer-file states the consumer can tell apart: absent, leader A, leader B.
StorageFiles == { Missing, Json("A", "hA"), Json("B", "hB") }

\* The external coordinator writes, rewrites or removes the pointer file.
StoragePointerChange == \E c \in StorageFiles : FileChanged(c)

\* LeaderStorage.__init__, with or without redis_url; connect() not yet called.
StorageInit ==
    /\ file \in StorageFiles
    /\ watchdog \in BOOLEAN
    /\ Created
    /\ consumer = TRUE
    /\ override_url \in {"", "O"}
    /\ Unconnected
    /\ NoScanner
    /\ NoRegistrar
    /\ Unstopped
    /\ part = "consumer"

\* The callbacks of LeaderStorage a thread of the watcher runs.
HandlerStep(t) ==
    \/ FoundCall(t)
    \/ LostCall(t)
    \/ _connect_to_redis(t)
    \/ _on_leader_lost(t)

StorageNext ==
    \/ ConnectOverride
    \/ MainStep
    \/ health_check_loop
    \/ EventStep
    \/ \E t \in Threads : HandlerStep(t)
    \/ StoragePointerChange

\* LeaderStorage with its watcher (poll worker and, with watchdog, the
\* observer thread) and the pointer file. A ready callback that asks
\* is_connected() waits for the mutex its own thread holds.
StorageSpec == StorageInit /\ [][StorageNext]_vars

\* The same, disconnect() called at any time after connect(); the joins of
\* stop() give up after two seconds.
ShutdownNext ==
    \/ StorageNext
    \/ stop(TRUE)
    \/ disconnect
    \/ PollStop
    \/ ObserverEnd

ShutdownSpec == StorageInit /\ [][ShutdownNext]_vars

\* Everything a thread of the watcher does, callbacks included.
WatcherStep(t) ==
    \/ t = "main" /\ MainStep
    \/ t = "poll" /\ health_check_loop
    \/ t = "event" /\ EventStep
    \/ HandlerStep(t)
    \/ is_connected(t)

ReadNext ==
    \/ ConnectOverride
    \/ \E t \in Threads : Alone(t) /\ WatcherStep(t)
    \/ get_all_videos
    \/ StoragePointerChange

\* LeaderStorage with a request thread of the server that reads the catalog
\* through get_all_videos() at any time, while the watcher's rescans and probes
\* (with the callbacks they make) are executed one after another.
ReadSpec == StorageInit /\ [][ReadNext]_vars

\* LeaderStorage with a request thread that asks get_status() at any time,
\* before connect() too, the watcher's handlers run one after another.
StatusNext ==
    \/ ConnectOverride
    \/ \E t \in Threads : Alone(t) /\ WatcherStep(t)
    \/ get_status
    \/ is_connected("status")
    \/ StoragePointerChange

StatusSpec == StorageInit /\ [][StatusNext]_vars

\* A ping of the handle just opened is answered.
PingAnswered == \E t \in Threads : ConnectPing(t) /\ hpc'[t] = "c_set"

\* ReadSpec with the scheduling the threads have: every thread that can take
\* a step takes one, and an endpoint that is pinged again and again answers.
RetrySpec ==
    /\ StorageInit
    /\ [][ReadNext]_vars
    /\ \A t \in Threads : SF_vars(Alone(t) /\ WatcherStep(t))
    /\ WF_vars(get_all_videos)
    /\ SF_vars(PingAnswered)

TypeOK ==
    /\ file \in FileContents
    /\ leader_info \in {None} \cup {LeaderLockInfo(d) : d \in Pointers}
    /\ consecutive_failures \in 0..MaxCount
    /\ pending \in BOOLEAN
    /\ Len(callbacks) <= MaxLog
    /\ pat \in 0..PatDead

\* ------------------------------------------------------------ ServiceDiscovery

\* Names are the '-'-separated parts of the string: 'meta-core' is <<"meta", "core">>.
MetaCore == << "meta", "core" >>
Svc == << "svc" >>
\* 'meta': the name of another service, and the first part of 'meta-core'.
Meta == << "meta" >>
NoName == << >>

\* info['lastHeartbeat']: an ISO timestamp (here: seconds), absent or empty,
\* or a string datetime.fromisoformat rejects.
At(t) == [k |-> "at", t |-> t]
NoHeartbeat == [k |-> "missing"]
BadHeartbeat == [k |-> "bad"]

\* The dict json.load returns for a record; role "none" is an absent key.
Info(n, h, st, hb, r) ==
    [name |-> n, hostname |-> h, status |-> st, lastHeartbeat |-> hb, role |-> r]

\* A directory entry {fname joined by '-'}.{ext} with its content.
ServiceFile(fn, e, b) == [fname |-> fn, ext |-> e, body |-> b]

\* {name}-{hostname}.json, as register() names the file of a record.
Registered(b) == ServiceFile(b.name \o << b.hostname >>, "json", b)

\* Record files of two meta-core instances and two instances of another
\* service, fresh and old, running and not; a legacy svc.json, a record file
\* cut short, a record without name and a file that is not .json.
ServiceFiles ==
    { Registered(Info(MetaCore, "h1", "running", At(0), "leader")),
      Registered(Info(MetaCore, "h1", "running", At(0), "follower")),
      Registered(Info(MetaCore, "h1", "stopped", At(1), "leader")),
      Registered(Info(MetaCore, "h2", "running", At(1), "leader")),
      Registered(Info(MetaCore, "h2", "running", At(1), "follower")),
      Registered(Info(Svc, "h1", "running", At(0), "none")),
      Registered(Info(Svc, "h1", "starting", At(1), "none")),
      Registered(Info(Svc, "h1", "running", NoHeartbeat, "none")),
      Registered(Info(Svc, "h1", "running", BadHeartbeat, "none")),
      Registered(Info(Svc, "h2", "running", At(1), "none")),
      Registered(Info(Svc, "h2", "stopped", At(1), "none")),
      ServiceFile(Svc, "json", Info(Svc, "h1", "running", At(0), "none")),
      ServiceFile(Svc \o << "h2" >>, "json", Corrupt),
      ServiceFile(<< "anon", "h1" >>, "json", Info(NoName, "h1", "running", At(1), "none")),
      ServiceFile(Svc \o << "h1" >>, "tmp", Info(Svc, "h1", "running", At(1), "none")) }

\* os.listdir(self.services_dir): up to MaxFiles entries with distinct file
\* names, in the order the file system lists them.
Directories ==
    { d \in UNION { [1..n -> ServiceFiles] : n \in 0..MaxFiles } :
        \A i, j \in 1..Len(d) :
            (i # j) => (d[i].fname # d[j].fname \/ d[i].ext # d[j].ext) }

\* _is_service_stale(info): True without a parseable lastHeartbeat, else
\* age > self.stale_threshold
_is_service_stale_Never(info, t) == FALSE

_is_service_stale_Reversed(info, t) ==
    IF info.lastHeartbeat.k # "at"
    THEN TRUE
    ELSE (t - info.lastHeartbeat.t) < stale_threshold

_is_service_stale(info, t) ==
    IF info.lastHeartbeat.k # "at"
    THEN TRUE
    ELSE (t - info.lastHeartbeat.t) > stale_threshold

\* json.load succeeded, and
\* `not self._is_service_stale(info) and info.get('status') == 'running'`
Passes(f, t) ==
    /\ f.body # Corrupt
    /\ ~_is_service_stale(f.body, t)
    /\ f.body.status = "running"

\* `if name and name not in seen_names:`
NotSeen_Always(name, seen) == name # NoName

NotSeen(name, seen) == name # NoName /\ name \notin seen

\* next((s for s in meta_core_instances if s.get('role') == 'leader'),
\*      meta_core_instances[0])
PickLeader_First(instances) == instances[1]

PickLeader(instances) ==
    LET leaders == { i \in 1..Len(instances) : instances[i].role = "leader" }
    IN  IF leaders = {}
        THEN instances[1]
        ELSE instances[CHOOSE i \in leaders : \A j \in leaders : i <= j]

\* The loop of discover_all_services over the listing, then the meta-core pick.
RECURSIVE ScanAll(_, _, _, _, _)
ScanAll(dir, t, services, seen_names, meta_core_instances) ==
    IF dir = << >>
    THEN IF meta_core_instances = << >>
         THEN services
         ELSE Append(services, PickLeader(meta_core_instances))
    ELSE LET f == Head(dir)
         IN  IF f.ext # "json" \/ ~Passes(f, t)
             THEN ScanAll(Tail(dir), t, services, seen_names, meta_core_instances)
             ELSE IF f.body.name = MetaCore
             THEN ScanAll(Tail(dir), t, services, seen_names,
                          Append(meta_core_instances, f.body))
             ELSE IF NotSeen(f.body.name, seen_names)
             THEN ScanAll(Tail(dir), t, Append(services, f.body),
                          seen_names \cup {f.body.name}, meta_core_instances)
             ELSE ScanAll(Tail(dir), t, services, seen_names, meta_core_instances)

discover_all_services(dir, t) == ScanAll(dir, t, << >>, {}, << >>)

\* filename.startswith(f'{name}-') and filename.endswith('.json')
StartsWith(f, name) ==
    /\ f.ext = "json"
    /\ Len(f.fname) > Len(name)
    /\ SubSeq(f.fname, 1, Len(name)) = name

\* The loop of discover_service over the listing: the first matching file that
\* passes is returned; json.load raising ends the call with None.
RECURSIVE ScanPrefix(_, _, _)
ScanPrefix(name, dir, t) ==
    IF dir = << >>
    THEN None
    ELSE LET f == Head(dir)
         IN  IF ~StartsWith(f, name)
             THEN ScanPrefix(name, Tail(dir), t)
             ELSE IF f.body = Corrupt
             THEN None
             ELSE IF Passes(f, t)
             THEN f.body
             ELSE ScanPrefix(name, Tail(dir), t)

\* discover_service(name): {name}.json first, then the files {name}-*.json
discover_service(name, dir, t) ==
    LET exact == { i \in 1..Len(dir) : dir[i].fname = name /\ dir[i].ext = "json" }
    IN  IF exact = {}
        THEN ScanPrefix(name, dir, t)
        ELSE LET f == dir[CHOOSE i \in exact : TRUE]
             IN  IF f.body = Corrupt
                 THEN None
                 ELSE IF Passes(f, t)
                 THEN f.body
                 ELSE ScanPrefix(name, dir, t)

\* A call of discover_all_services().
DiscoverAll ==
    /\ last_scan' = [kind |-> "all", at |-> now,
                     out |-> discover_all_services(services_dir, now)]
    /\ prev_scan' = IF last_scan.kind = "all" THEN last_scan ELSE NoScan
    /\ UNCHANGED << services_dir, now >>
    /\ UNCHANGED << discoveryVars, consumerVars, hpc, readerVars, apart >>

\* A call of discover_service(name) that also removes from the directory the
\* record files it passes over.
DiscoverService_Pruning ==
    /\ \E name \in {MetaCore, Svc, Meta} :
         last_scan' = [kind |-> "one", name |-> name, at |-> now,
                       out |-> discover_service(name, services_dir, now)]
    /\ prev_scan' = NoScan
    /\ services_dir' = SelectSeq(services_dir, LAMBDA f : Passes(f, now))
    /\ UNCHANGED now
    /\ UNCHANGED << discoveryVars, consumerVars, hpc, readerVars, apart >>

\* A call of discover_service(name).
DiscoverService ==
    /\ \E name \in {MetaCore, Svc, Meta} :
         last_scan' = [kind |-> "one", name |-> name, at |-> now,
                       out |-> discover_service(name, services_dir, now)]
    /\ prev_scan' = NoScan
    /\ UNCHANGED << services_dir, now >>
    /\ UNCHANGED << discoveryVars, consumerVars, hpc, readerVars, apart >>

\* A second passes.
Tick ==
    /\ now < MaxNow
    /\ now' = now + 1
    /\ UNCHANGED << services_dir, last_scan, prev_scan >>
    /\ UNCHANGED << discoveryVars, consumerVars, hpc, readerVars, apart >>

\* ServiceDiscovery.__init__ over a services directory other processes filled.
ScanInit ==
    /\ services_dir \in Directories
    /\ now = FirstNow
    /\ last_scan = NoScan
    /\ prev_scan = NoScan
    /\ file = Missing
    /\ watchdog = FALSE
    /\ Created
    /\ NoConsumer
    /\ NoRegistrar
    /\ Unstopped
    /\ part = "scanner"

ScanNext == DiscoverAll \/ DiscoverService \/ Tick

\* The discovery calls of ServiceDiscovery over an unchanging directory.
ScanSpec == ScanInit /\ [][ScanNext]_vars

\* ------------------------------------------------------------ registrar
\* ServiceDiscovery announcing this process: register, update_status,
\* heartbeat, the heartbeat thread, start and unregister. A thread takes one
\* step per access to the shared file system or to a shared attribute.

\* What the registrar's steps do not touch.
beyondRegistrar ==
    << discoveryVars, consumerVars, hpc, readerVars, scanVars, clientVars, lateVars >>

\* _build_service_info(status).to_dict(): service_name, current_hostname,
\* base_url, the status and utcnow(); role is None and left out.
_build_service_info_Elsewhere(status, t) ==
    [name |-> Svc, hostname |-> "h1", baseUrl |-> "", status |-> status,
     lastHeartbeat |-> At(t), role |-> "none"]

_build_service_info(status, t) ==
    [name |-> Svc, hostname |-> "h1", baseUrl |-> "U", status |-> status,
     lastHeartbeat |-> At(t), role |-> "none"]

\* What an earlier run of the service left in the record file: a stopped
\* record announcing another base URL, and a starting record carrying a role.
PreviousRecords ==
    { [name |-> Svc, hostname |-> "h1", baseUrl |-> "V", status |-> "stopped",
       lastHeartbeat |-> At(0), role |-> "none"],
      [name |-> Svc, hostname |-> "h1", baseUrl |-> "U", status |-> "starting",
       lastHeartbeat |-> At(1), role |-> "follower"] }

\* heartbeat: info['lastHeartbeat'] = datetime.utcnow().isoformat() + 'Z'
Beat_Rebuild(info, t) == _build_service_info("running", t)

Beat(info, t) == [info EXCEPT !.lastHeartbeat = At(t)]

\* update_status: info['status'] = status; info['lastHeartbeat'] = ...
Stamp(info, status, t) ==
    [info EXCEPT !.status = status, !.lastHeartbeat = At(t)]

\* Thread t continues at label with the pending returns st.
Resume(t, label, st) ==
    /\ rpc' = [rpc EXCEPT ![t] = label]
    /\ rstack' = [rstack EXCEPT ![t] = st]

\* The method t is in returns to its caller.
Finish(t) ==
    /\ Resume(t, Head(rstack[t]), Tail(rstack[t]))
    /\ rlocal' = [rlocal EXCEPT ![t] = NoLocals]

\* An exception leaves register(): out of heartbeat's `except
\* FileNotFoundError` handler when register was called there, then to the
\* try of _heartbeat_loop or of start(), else to the caller of the method.
Propagate(t) ==
    LET inHandler == Head(rstack[t]) = "h_update"
        outer == IF inHandler THEN Tail(rstack[t]) ELSE rstack[t]
    IN  /\ rlocal' = [rlocal EXCEPT ![t] = NoLocals]
        /\ CASE Head(outer) = "l_wait" ->
                  Resume(t, "l_wait", << >>) /\ UNCHANGED raised
             [] Head(outer) = "s_update" ->
                  Resume(t, "s_started", Tail(outer)) /\ UNCHANGED raised
             [] OTHER ->
                  /\ Resume(t, Head(outer), Tail(outer))
                  /\ raised' = IF inHandler THEN "heartbeat" ELSE "register"

\* json.dump(info, f) and close: the content reaches the file opened at the
\* previous step; a file unlinked since then stays absent.
Written(t) == IF record = Missing THEN Missing ELSE rlocal[t].info

\* register()
register(t) ==
    \/ /\ rpc[t] = "g_mkdir"
       /\ dir_mode' = IF dir_mode = "missing" THEN "ok" ELSE dir_mode
       /\ rlocal' = [rlocal EXCEPT ![t].info = _build_service_info("starting", now)]
       /\ Resume(t, "g_open", rstack[t])
       /\ UNCHANGED << record, stop_event, sd_started, raised, observed >>
       /\ UNCHANGED beyondRegistrar
    \/ /\ rpc[t] = "g_open"
       /\ IF dir_mode # "ok"
          THEN Propagate(t) /\ UNCHANGED record
          ELSE /\ record' = Corrupt
               /\ Resume(t, "g_dump", rstack[t])
               /\ UNCHANGED << rlocal, raised >>
       /\ UNCHANGED << dir_mode, stop_event, sd_started, observed >>
       /\ UNCHANGED beyondRegistrar
    \/ /\ rpc[t] = "g_dump"
       /\ record' = Written(t)
       /\ Finish(t)
       /\ UNCHANGED << dir_mode, stop_event, sd_started, raised, observed >>
       /\ UNCHANGED beyondRegistrar

\* update_status(status), the status in the caller's locals
update_status(t) ==
    \/ /\ rpc[t] = "u_read"
       /\ IF record \in {Missing, Corrupt}
          THEN Finish(t)
          ELSE /\ rlocal' = [rlocal EXCEPT
                               ![t].info = Stamp(record, rlocal[t].status, now)]
               /\ Resume(t, "u_open", rstack[t])
       /\ UNCHANGED << record, dir_mode, stop_event, sd_started, raised, observed >>
       /\ UNCHANGED beyondRegistrar
    \/ /\ rpc[t] = "u_open"
       /\ IF dir_mode # "ok"
          THEN Finish(t) /\ UNCHANGED record
          ELSE /\ record' = Corrupt
               /\ Resume(t, "u_dump", rstack[t])
               /\ UNCHANGED rlocal
       /\ UNCHANGED << dir_mode, stop_event, sd_started, raised, observed >>
       /\ UNCHANGED beyondRegistrar
    \/ /\ rpc[t] = "u_dump"
       /\ record' = Written(t)
       /\ Finish(t)
       /\ UNCHANGED << dir_mode, stop_event, sd_started, raised, observed >>
       /\ UNCHANGED beyondRegistrar

\* heartbeat(); on FileNotFoundError register() and update_status('running')
heartbeat(t) ==
    \/ /\ rpc[t] = "h_read"
       /\ CASE record = Missing ->
                 /\ Resume(t, "g_mkdir", << "h_update" >> \o rstack[t])
                 /\ UNCHANGED rlocal
            [] record = Corrupt -> Finish(t)
            [] OTHER ->
                 /\ rlocal' = [rlocal EXCEPT ![t].info = Beat(record, now)]
                 /\ Resume(t, "h_open", rstack[t])
       /\ UNCHANGED << record, dir_mode, stop_event, sd_started, raised, observed >>
       /\ UNCHANGED beyondRegistrar
    \/ /\ rpc[t] = "h_open"
       /\ IF dir_mode # "ok"
          THEN Finish(t) /\ UNCHANGED record
          ELSE /\ record' = Corrupt
               /\ Resume(t, "h_dump", rstack[t])
               /\ UNCHANGED rlocal
       /\ UNCHANGED << dir_mode, stop_event, sd_started, raised, observed >>
       /\ UNCHANGED beyondRegistrar
    \/ /\ rpc[t] = "h_dump"
       /\ record' = Written(t)
       /\ Finish(t)
       /\ UNCHANGED << dir_mode, stop_event, sd_started, raised, observed >>
       /\ UNCHANGED beyondRegistrar
    \/ /\ rpc[t] = "h_update"
       /\ rlocal' = [rlocal EXCEPT ![t].status = "running"]
       /\ Resume(t, "u_read", rstack[t])
       /\ UNCHANGED << record, dir_mode, stop_event, sd_started, raised, observed >>
       /\ UNCHANGED beyondRegistrar

\* _heartbeat_loop: `while not self._stop_event.is_set()`, heartbeat(), then
\* self._stop_event.wait(interval), which ends when the interval has passed
\* or the event is set.
_heartbeat_loop ==
    /\ \/ /\ rpc["beat"] = "l_check"
          /\ IF stop_event
             THEN Resume("beat", "off", << >>)
             ELSE Resume("beat", "h_read", << "l_wait" >>)
       \/ /\ rpc["beat"] = "l_wait"
          /\ Resume("beat", "l_check", << >>)
    /\ UNCHANGED << record, dir_mode, rlocal, stop_event, sd_started, raised, observed >>
    /\ UNCHANGED beyondRegistrar

\* start(): register(), update_status('running') and start_heartbeat() when
\* the directory exists and is writable, then self._is_started = True.
ServiceStart ==
    \/ /\ rpc["caller"] = "idle"
       /\ ~sd_started
       /\ IF dir_mode = "ok"
          THEN Resume("caller", "g_mkdir", << "s_update", "idle" >>)
               /\ UNCHANGED sd_started
          ELSE sd_started' = TRUE /\ UNCHANGED << rpc, rstack >>
       /\ UNCHANGED << record, dir_mode, rlocal, stop_event, raised, observed >>
       /\ UNCHANGED beyondRegistrar
    \/ /\ rpc["caller"] = "s_update"
       /\ rlocal' = [rlocal EXCEPT !["caller"].status = "running"]
       /\ Resume("caller", "u_read", << "s_heartbeat" >> \o rstack["caller"])
       /\ UNCHANGED << record, dir_mode, stop_event, sd_started, raised, observed >>
       /\ UNCHANGED beyondRegistrar
    \/ /\ rpc["caller"] = "s_heartbeat"
       /\ IF rpc["beat"] # "off"
          THEN /\ rpc' = [rpc EXCEPT !["caller"] = Head(rstack["caller"])]
               /\ UNCHANGED stop_event
          ELSE /\ rpc' = [rpc EXCEPT !["caller"] = Head(rstack["caller"]),
                                     !["beat"] = "l_check"]
               /\ stop_event' = FALSE
       /\ rstack' = [rstack EXCEPT !["caller"] = Tail(@)]
       /\ rlocal' = [rlocal EXCEPT !["caller"] = NoLocals]
       /\ sd_started' = TRUE
       /\ UNCHANGED << record, dir_mode, raised, observed >>
       /\ UNCHANGED beyondRegistrar
    \/ /\ rpc["caller"] = "s_started"
       /\ sd_started' = TRUE
       /\ Finish("caller")
       /\ UNCHANGED << record, dir_mode, stop_event, raised, observed >>
       /\ UNCHANGED beyondRegistrar

\* register() or heartbeat() called by the application itself.
Invoke ==
    /\ rpc["caller"] = "idle"
    /\ \E first \in {"g_mkdir", "h_read"} : Resume("caller", first, << "idle" >>)
    /\ UNCHANGED << record, dir_mode, rlocal, stop_event, sd_started, raised, observed >>
    /\ UNCHANGED beyondRegistrar

\* unregister(): stop_heartbeat() sets the event and joins the heartbeat
\* thread for at most 2 s, then update_status('stopped'). With timeouts the
\* join may return while the thread is still alive.
unregister(timeouts) ==
    \/ /\ rpc["caller"] = "idle"
       /\ stop_event' = TRUE
       /\ Resume("caller", "x_join", << "gone" >>)
       /\ UNCHANGED << record, dir_mode, rlocal, sd_started, raised, observed >>
       /\ UNCHANGED beyondRegistrar
    \/ /\ rpc["caller"] = "x_join"
       /\ timeouts \/ rpc["beat"] = "off"
       /\ rlocal' = [rlocal EXCEPT !["caller"].status = "stopped"]
       /\ Resume("caller", "u_read", rstack["caller"])
       /\ UNCHANGED << record, dir_mode, stop_event, sd_started, raised, observed >>
       /\ UNCHANGED beyondRegistrar

\* Something outside the process removes the record file.
DeleteRecord ==
    /\ record # Missing
    /\ record' = Missing
    /\ UNCHANGED << dir_mode, rpc, rstack, rlocal, stop_event, sd_started, raised,
                    observed >>
    /\ UNCHANGED beyondRegistrar

\* The shared file system turns read-only under the process.
TurnReadOnly ==
    /\ dir_mode = "ok"
    /\ dir_mode' = "readonly"
    /\ UNCHANGED << record, rpc, rstack, rlocal, stop_event, sd_started, raised,
                    observed >>
    /\ UNCHANGED beyondRegistrar

\* The writes an unparseable file was caught in the middle of.
Torn ==
    [kind |-> "corrupt",
     writing |-> { rpc[t] : t \in RegThreads } \cap {"g_dump", "u_dump", "h_dump"}]

\* Another process running discovery opens the record file and json.load()s it.
Observe ==
    /\ record # Missing
    /\ observed' = IF record = Corrupt THEN Torn ELSE record
    /\ UNCHANGED << record, dir_mode, rpc, rstack, rlocal, stop_event, sd_started,
                    raised >>
    /\ UNCHANGED beyondRegistrar

\* ServiceDiscovery.__init__ over a services directory that is there, absent
\* or read-only, with or without a record file of an earlier run.
RegInit ==
    /\ dir_mode \in {"ok", "missing", "readonly"}
    /\ record \in IF dir_mode = "missing"
                  THEN {Missing}
                  ELSE {Missing} \cup PreviousRecords
    /\ Constructed
    /\ file = Missing
    /\ watchdog = FALSE
    /\ Created
    /\ NoConsumer
    /\ NoScanner
    /\ info_file = Missing
    /\ up = FALSE
    /\ epoch = 0
    /\ clock = 0
    /\ ClientCreated
    /\ Unstopped
    /\ part = "registrar"

RegStep(t) == register(t) \/ update_status(t) \/ heartbeat(t)

CallerStep(timeouts) ==
    ServiceStart \/ Invoke \/ unregister(timeouts) \/ RegStep("caller")

BeatStep == _heartbeat_loop \/ RegStep("beat")

\* The registrar with its two threads interleaved at every step, the record
\* file deleted and read from outside at any time, the file system turning
\* read-only at any time.
RegNext ==
    \/ CallerStep(TRUE)
    \/ BeatStep
    \/ DeleteRecord
    \/ TurnReadOnly
    \/ Observe
    \/ Tick

RegSpec == RegInit /\ [][RegNext]_vars

\* A thread is outside every method, blocked in join(), or waiting on the event.
Resting(t) == rpc[t] \in {"idle", "gone", "x_join", "off", "l_wait"}

\* The same with the methods run one at a time, join() waiting for the end of
\* the heartbeat thread, and the record file deleted only between two calls.
RegSeqNext ==
    \/ Resting("beat") /\ CallerStep(FALSE)
    \/ Resting("caller") /\ BeatStep
    \/ (\A t \in RegThreads : Resting(t)) /\ DeleteRecord
    \/ TurnReadOnly
    \/ Observe
    \/ Tick

RegSeqSpec == RegInit /\ [][RegSeqNext]_vars

\* A process that runs a watcher of its own or announces itself, and shuts
\* down at any time: the handlers of the watcher and the methods of the
\* registrar run one at a time.
StopNext ==
    \/ part = "watcher" /\ (\E t \in Threads : Alone(t) /\ StopStep(t))
    \/ part = "watcher" /\ Environment
    \/ part = "registrar" /\ RegSeqNext

\* Every thread that can go on does: the caller ends the method it is in, the
\* workers are scheduled again and again.
StopSpec ==
    /\ (Init \/ RegInit)
    /\ [][StopNext]_vars
    /\ \A t \in Threads : SF_vars(part = "watcher" /\ Alone(t) /\ StopStep(t))
    /\ SF_vars(part = "registrar" /\ Resting("caller") /\ BeatStep)
    /\ WF_vars(part = "registrar" /\ Resting("beat") /\ CallerStep(FALSE))

\* The watcher of such a process stopped and started again, once or several
\* times.
RestartNext ==
    \/ \E t \in Threads : Alone(t) /\ StopStep(t)
    \/ Alone("main") /\ Restart
    \/ Environment

RestartSpec == Init /\ [][RestartNext]_vars

\* ------------------------------------------------------------ LeaderClient
\* The light client (src/src/storage/leader_client.py): the pointer file holds
\* the control URL, the descriptor is fetched from {url}/urls and cached. The
\* application thread and the observer thread take one step per access to a
\* shared attribute, to the file or to the network; LeaderClient holds no lock.
\* self.leader_info, which get_leader_info assigns and only
\* get_cached_leader_info reads, is left out.

\* What the light client's steps do not touch.
beyondClient ==
    << discoveryVars, consumerVars, hpc, readerVars, scanVars, registrarVars, lateVars >>

Text(u) == [kind |-> "text", text |-> u]

\* The pointer file: absent, empty or blank, or one of two control URLs.
InfoFiles == { Missing, Text(""), Text("U1"), Text("U2") }

\* _get_api_url_from_file(): `content.strip() or None`, None when the file
\* cannot be read; "" stands for None, as `if not api_url` treats both alike.
_get_api_url_from_file(f) == IF f = Missing THEN "" ELSE f.text

\* The URLsResponse built from the answer of {api_url}/urls, with the number
\* of file-change events that had happened when the answer was given.
URLsResponse(u, e) == [from |-> u, epoch |-> e]

\* `(now - self._urls_cache_time) < self._urls_cache_ttl`
Fresh_Inclusive(t, cache_time) == (t - cache_time) <= _urls_cache_ttl

Fresh(t, cache_time) == (t - cache_time) < _urls_cache_ttl

\* What _fetch_urls returns when the request fails or is not answered 200.
Failed_Stale(cache) == cache

Failed(cache) == None

\* `(time.time() - start_time) * 1000 < timeout_ms` is false.
Expired_Never(t, start, timeout) == FALSE

Expired(t, start, timeout) == ~((t - start) < timeout)

\* A leader is there to be found: the pointer names a URL that answers.
Available(f, u) == _get_api_url_from_file(f) # "" /\ u

\* History of wait_for_leader: a leader was there at some moment of the wait
\* before its deadline.
Chance(f, u) ==
    \/ wait.chance
    \/ /\ wait.state = "waiting"
       /\ ~Expired(clock, wait.start, wait.timeout)
       /\ Available(f, u)

\* Thread t calls get_leader_info() from the application ("call"), from
\* wait_for_leader ("wait") or from _on_file_change ("event").
Enter(t, ctx) ==
    /\ cpc' = [cpc EXCEPT ![t] = "i_file"]
    /\ clocal' = [clocal EXCEPT ![t] = [NoFetch EXCEPT !.ctx = ctx,
                                                       !.floor = handled]]

\* get_leader_info() is about to return val.
Leave(t, loc, val) ==
    /\ cpc' = [cpc EXCEPT ![t] = "i_ret"]
    /\ clocal' = [clocal EXCEPT ![t] = [loc EXCEPT !.urls = val]]
    /\ UNCHANGED wait

\* Thread t goes on inside get_leader_info / _fetch_urls with locals loc.
Continue(t, label, loc) ==
    /\ cpc' = [cpc EXCEPT ![t] = label]
    /\ clocal' = [clocal EXCEPT ![t] = loc]
    /\ UNCHANGED wait

\* _fetch_urls(api_url): the cache check (three reads of the two cache
\* attributes), the request, and the two writes of the cache.
_fetch_urls(t) ==
    LET loc == clocal[t]
    IN  \/ /\ cpc[t] = "f_c1"
           /\ IF cached_urls # None
              THEN Continue(t, "f_c2", [loc EXCEPT !.now = clock])
              ELSE Continue(t, "f_open", [loc EXCEPT !.now = clock])
           /\ UNCHANGED << cached_urls, urls_cache_time, fetched >>
        \/ /\ cpc[t] = "f_c2"
           /\ IF Fresh(loc.now, urls_cache_time)
              THEN Continue(t, "f_c3", loc)
              ELSE Continue(t, "f_open", loc)
           /\ UNCHANGED << cached_urls, urls_cache_time, fetched >>
        \/ /\ cpc[t] = "f_c3"
           /\ IF cached_urls = None
              THEN Leave(t, [loc EXCEPT !.hit = TRUE], None)
              ELSE Continue(t, "i_set", [loc EXCEPT !.hit = TRUE, !.urls = cached_urls])
           /\ UNCHANGED << cached_urls, urls_cache_time, fetched >>
        \/ /\ cpc[t] = "f_open"
           /\ IF up
              THEN Continue(t, "f_store",
                            [loc EXCEPT !.requested = TRUE,
                                        !.urls = URLsResponse(loc.api_url, epoch)])
              ELSE LET left == [loc EXCEPT !.requested = TRUE, !.failed = TRUE]
                   IN  IF Failed(cached_urls) = None
                       THEN Leave(t, left, None)
                       ELSE Continue(t, "i_set",
                                     [left EXCEPT !.urls = Failed(cached_urls)])
           /\ UNCHANGED << cached_urls, urls_cache_time, fetched >>
        \/ /\ cpc[t] = "f_store"
           /\ cached_urls' = loc.urls
           /\ Continue(t, "f_time", loc)
           /\ UNCHANGED << urls_cache_time, fetched >>
        \/ /\ cpc[t] = "f_time"
           /\ urls_cache_time' = loc.now
           /\ fetched' = [t |-> loc.now]
           /\ Continue(t, "i_set", loc)
           /\ UNCHANGED cached_urls

\* get_leader_info(): the pointer file, _fetch_urls, self.leader_info
get_leader_info(t) ==
    /\ \/ /\ cpc[t] = "i_file"
          /\ LET u == _get_api_url_from_file(info_file)
             IN  IF u = ""
                 THEN Leave(t, clocal[t], None)
                 ELSE Continue(t, "f_c1", [clocal[t] EXCEPT !.api_url = u])
          /\ UNCHANGED << cached_urls, urls_cache_time, fetched >>
       \/ _fetch_urls(t)
       \/ /\ cpc[t] = "i_set"
          /\ Leave(t, clocal[t], clocal[t].urls)
          /\ UNCHANGED << cached_urls, urls_cache_time, fetched >>
       \/ /\ cpc[t] = "i_ret"
          /\ clocal' = [clocal EXCEPT ![t] = NoFetch]
          /\ CASE clocal[t].ctx = "event" ->
                    cpc' = [cpc EXCEPT ![t] = "e_notify"] /\ UNCHANGED wait
               [] clocal[t].ctx = "wait" /\ clocal[t].urls = None ->
                    cpc' = [cpc EXCEPT ![t] = "w_sleep"] /\ UNCHANGED wait
               [] clocal[t].ctx = "wait" /\ clocal[t].urls # None ->
                    /\ cpc' = [cpc EXCEPT ![t] = "idle"]
                    /\ wait' = [wait EXCEPT !.state = "returned"]
               [] OTHER ->
                    cpc' = [cpc EXCEPT ![t] = "idle"] /\ UNCHANGED wait
          /\ UNCHANGED << cached_urls, urls_cache_time, fetched >>
    /\ UNCHANGED << info_file, up, epoch, taken, handled, clock >>
    /\ UNCHANGED beyondClient

\* _on_file_change(): the cache is invalidated by two writes, then
\* get_leader_info() and _notify_change().
_on_file_change ==
    /\ \/ /\ cpc["obs"] = "idle"
          /\ taken < epoch
          /\ taken' = taken + 1
          /\ cached_urls' = None
          /\ fetched' = None
          /\ cpc' = [cpc EXCEPT !["obs"] = "e_inv"]
          /\ UNCHANGED << handled, urls_cache_time, clocal >>
       \/ /\ cpc["obs"] = "e_inv"
          /\ urls_cache_time' = 0
          /\ Enter("obs", "event")
          /\ UNCHANGED << taken, handled, cached_urls, fetched >>
       \/ /\ cpc["obs"] = "e_notify"
          /\ handled' = taken
          /\ cpc' = [cpc EXCEPT !["obs"] = "idle"]
          /\ UNCHANGED << taken, cached_urls, urls_cache_time, fetched, clocal >>
    /\ UNCHANGED << info_file, up, epoch, clock, wait >>
    /\ UNCHANGED beyondClient

\* The application calls get_leader_info().
AppCall ==
    /\ cpc["app"] = "idle"
    /\ wait.state # "waiting"
    /\ Enter("app", "call")
    /\ UNCHANGED << info_file, up, epoch, taken, handled, cached_urls,
                    urls_cache_time, clock, fetched, wait >>
    /\ UNCHANGED beyondClient

\* wait_for_leader(timeout_ms): polls get_leader_info() until the deadline,
\* sleeping poll_interval (half a second: it ends before or after the clock
\* shows the next second) between two polls; TimeoutError after the deadline.
wait_for_leader ==
    /\ \/ /\ cpc["app"] = "idle"
          /\ wait.state = "none"
          /\ \E timeout \in 0..MaxWait :
               /\ clock + timeout <= MaxTime
               /\ wait' = [state |-> "waiting", start |-> clock, timeout |-> timeout,
                           chance |-> timeout > 0 /\ Available(info_file, up)]
          /\ cpc' = [cpc EXCEPT !["app"] = "w_check"]
          /\ UNCHANGED clocal
       \/ /\ cpc["app"] = "w_check"
          /\ IF Expired(clock, wait.start, wait.timeout)
             THEN /\ wait' = [wait EXCEPT !.state = "raised"]
                  /\ cpc' = [cpc EXCEPT !["app"] = "idle"]
                  /\ UNCHANGED clocal
             ELSE Enter("app", "wait") /\ UNCHANGED wait
       \/ /\ cpc["app"] = "w_sleep"
          /\ cpc' = [cpc EXCEPT !["app"] = "w_check"]
          /\ UNCHANGED << clocal, wait >>
    /\ UNCHANGED << info_file, up, epoch, taken, handled, cached_urls,
                    urls_cache_time, clock, fetched >>
    /\ UNCHANGED beyondClient

\* The coordinator rewrites or removes the pointer file; watchdog queues an event.
ChangeInfoFile ==
    /\ epoch < MaxEvents
    /\ \E f \in InfoFiles \ {info_file} :
         /\ info_file' = f
         /\ wait' = [wait EXCEPT !.chance = Chance(f, up)]
    /\ epoch' = epoch + 1
    /\ UNCHANGED << up, taken, handled, cached_urls, urls_cache_time,
                    clock, cpc, clocal, fetched >>
    /\ UNCHANGED beyondClient

\* The control API starts or stops answering.
ServerFlip ==
    /\ up' = ~up
    /\ wait' = [wait EXCEPT !.chance = Chance(info_file, ~up)]
    /\ UNCHANGED << info_file, epoch, taken, handled, cached_urls, urls_cache_time,
                    clock, cpc, clocal, fetched >>
    /\ UNCHANGED beyondClient

\* A second passes on time.time().
ClockTick ==
    /\ clock < MaxTime
    /\ clock' = clock + 1
    /\ UNCHANGED << info_file, up, epoch, taken, handled, cached_urls,
                    urls_cache_time, cpc, clocal, fetched, wait >>
    /\ UNCHANGED beyondClient

\* LeaderClient.__init__ and start_watching(), over any pointer file.
ClientInit ==
    /\ info_file \in InfoFiles
    /\ up \in BOOLEAN
    /\ epoch = 0
    /\ clock = 0
    /\ ClientCreated
    /\ record = Missing
    /\ dir_mode = "ok"
    /\ Constructed
    /\ file = Missing
    /\ watchdog = FALSE
    /\ Created
    /\ NoConsumer
    /\ NoScanner
    /\ Unstopped
    /\ part = "client"

\* The light client with its two threads interleaved at every step, the
\* application calling get_leader_info() again and again; calls are short
\* against the clock's second, which passes between them.
ClientNext ==
    \/ AppCall
    \/ get_leader_info("app")
    \/ _on_file_change
    \/ get_leader_info("obs")
    \/ ChangeInfoFile
    \/ ServerFlip
    \/ (\A t \in ClientThreads : cpc[t] = "idle") /\ ClockTick

ClientSpec == ClientInit /\ [][ClientNext]_vars

\* The calls of the two threads run one at a time, a second passing at any
\* point, also between the clock reading of a fetch and its answer.
ClientSeqNext ==
    \/ cpc["obs"] = "idle" /\ (AppCall \/ get_leader_info("app"))
    \/ cpc["app"] = "idle" /\ (_on_file_change \/ get_leader_info("obs"))
    \/ ChangeInfoFile
    \/ ServerFlip
    \/ ClockTick

ClientSeqSpec == ClientInit /\ [][ClientSeqNext]_vars

\* An application thread in wait_for_leader, no watcher started.
WaitStep == wait_for_leader \/ get_leader_info("app")

WaitNext == WaitStep \/ ChangeInfoFile \/ ServerFlip \/ ClockTick

\* The application thread keeps running and time keeps passing.
WaitSpec ==
    ClientInit /\ [][WaitNext]_vars /\ WF_vars(WaitStep) /\ WF_vars(ClockTick)

\* ------------------------------------------------------------ observations

Last(q) == q[Len(q)]

\* Two on-found callbacks in a row for the same data endpoint.
DuplicateFound ==
    \E i \in 1..(Len(callbacks) - 1) :
        /\ callbacks[i].cb = "found"
        /\ callbacks[i + 1] = callbacks[i]

\* Two on-lost callbacks in a row, no on-found between them.
DuplicateLost ==
    \E i \in 1..(Len(callbacks) - 1) :
        callbacks[i] = Lost /\ callbacks[i + 1] = Lost

\* The poll worker holds a verdict measured on another leader than the current one.
VerdictMismatch ==
    /\ probed # None
    /\ leader_info # None
    /\ leader_info.api # probed.api

\* _consecutive_failures after each probe of fail, fail, success, fail, fail.
FailsAfter == << 1, 2, 0, 1, 2 >>

\* The records a discovery call returned.
Returns(scan) ==
    CASE scan.kind = "all" -> { scan.out[i] : i \in 1..Len(scan.out) }
      [] scan.kind = "one" -> IF scan.out = None THEN {} ELSE {scan.out}
      [] OTHER -> {}

\* now - lastHeartbeat, for a record with a parseable timestamp.
Age(info, t) == t - info.lastHeartbeat.t

\* Live, as the data model defines it: now - lastHeartbeat < stalenessThreshold
\* and status == running.
Live(info, t) ==
    /\ info.lastHeartbeat.k = "at"
    /\ Age(info, t) < stale_threshold
    /\ info.status = "running"

\* The identities (name, hostname) and the names of what a call returned.
Identities(scan) == { << r.name, r.hostname >> : r \in Returns(scan) }

Names(scan) == { r.name : r \in Returns(scan) }

\* The bodies of the parseable .json files of the directory, in listing order.
Records ==
    LET ok == SelectSeq(services_dir, LAMBDA f : f.ext = "json" /\ f.body # Corrupt)
    IN  [i \in 1..Len(ok) |-> ok[i].body]

\* The meta-core records discovery takes as candidates, in listing order.
Candidates(t) ==
    SelectSeq(Records, LAMBDA b : b.name = MetaCore /\ ~_is_service_stale(b, t)
                                    /\ b.status = "running")

\* ------------------------------------------------ the shared directory
\* Record files of other processes next to the registrar's own: none, or the
\* records of the same service on another host and of the coordinator.
Neighbours ==
    { << >>,
      << ServiceFile(Svc \o << "h2" >>, "json", Info(Svc, "h2", "running", At(0), "none")),
         ServiceFile(MetaCore \o << "h1" >>, "json", Corrupt) >> }

\* ServiceDiscovery.__init__ in a services directory that other processes
\* announce themselves in.
SharedInit ==
    /\ dir_mode \in {"ok", "readonly"}
    /\ record \in {Missing} \cup PreviousRecords
    /\ Constructed
    /\ services_dir \in Neighbours
    /\ now = FirstNow
    /\ last_scan = NoScan
    /\ prev_scan = NoScan
    /\ file = Missing
    /\ watchdog = FALSE
    /\ Created
    /\ NoConsumer
    /\ info_file = Missing
    /\ up = FALSE
    /\ epoch = 0
    /\ clock = 0
    /\ ClientCreated
    /\ Unstopped
    /\ part = "registrar"

\* One of the five components at work on the shared file system: the watcher,
\* the consumer over its watcher, the scanner, the registrar, the light client.
\* Each runs its calls one at a time, and the other processes (the coordinator,
\* whoever removes a record) act at any time.
WholeInit == Init \/ StorageInit \/ ScanInit \/ SharedInit \/ ClientInit

WholeNext ==
    \/ part = "watcher" /\ SeqNext
    \/ part = "consumer" /\ ReadNext
    \/ part = "scanner" /\ ScanNext
    \/ part = "registrar" /\ RegSeqNext
    \/ part = "client" /\ ClientSeqNext

WholeSpec == WholeInit /\ [][WholeNext]_vars

\* ------------------------------------------------------------ claims

\* C1: when the poll worker and the event listener rescan the same pointer-file
\* state concurrently, on-found is delivered once for the newly appeared
\* leader: the receiver never gets on-found twice in a row for one identity.
C1_ConcurrentRescanFiresOnce == ~DuplicateFound

C3_VerdictAppliedToMeasuredLeader ==
    [][ ~( /\ VerdictMismatch
           /\ \/ pc["poll"] = "inc_write" /\ pc'["poll"] = "chk"
              \/ pc["poll"] = "t_lost_set" /\ pc'["poll"] = "t_lost_cb" ) ]_vars

\* C4: polling only. The counter never passes max_failures, a failed probe
\* adds one to it and leaves the leader known, and a leader that is still known
\* when the iteration waits has fewer than max_failures failures; along fail, fail, success, fail, fail the leader stays known with
\* no callback and the counter reads 1, 2, 0, 1, 2; the sixth probe (the third
\* failure after the reset) delivers on-lost exactly once.
C4_ProbeThreshold ==
    ~watchdog =>
      /\ consecutive_failures <= max_failures
      /\ ~DuplicateLost
      /\ (pc["poll"] = "wait" /\ has_leader) => consecutive_failures < max_failures
      /\ pc["poll"] = "chk" => (has_leader /\ consecutive_failures = tmp + 1)
      /\ pat \in 1..5 =>
           /\ has_leader
           /\ Last(callbacks).cb = "found"
           /\ pc["poll"] = "wait" => consecutive_failures = FailsAfter[pat]
      /\ pat = 6 =>
           IF pc["poll"] \in {"apply", "inc_write", "chk", "t_lost_set", "t_lost_cb"}
           THEN Last(callbacks).cb = "found"
           ELSE /\ Len(callbacks) >= 2
                /\ callbacks[Len(callbacks) - 1].cb = "found"
                /\ Last(callbacks) = Lost
                /\ pc["poll"] = "wait" => ~has_leader

\* C4 witness: the six probes were applied to leader A and on-lost was delivered once.
C4_Witness ==
    /\ ~watchdog
    /\ pat = 6
    /\ pc["poll"] = "wait"
    /\ callbacks = << Found("A"), Lost >>
    /\ ~has_leader

\* C5: once a poll iteration that began after the deletion of
\* the pointer file has completed, a watcher that knew a leader at the deletion
\* is in NoLeader and on-lost was the last callback.
C5_DeletionNoticedWithinPollInterval ==
    (pc["poll"] = "wait" /\ file = Missing /\ stateAtChange = "LeaderKnown" /\ polled)
    => (~has_leader /\ callbacks # << >> /\ Last(callbacks) = Lost)

\* C6: polling only. Once a poll iteration that began after a valid pointer was
\* written in NoLeader has completed, that pointer is the leader and on-found
\* for it was the last callback.
C6_PointerFoundWithinPollInterval ==
    ( /\ ~watchdog /\ is_started
      /\ pc["poll"] = "wait"
      /\ file \in Pointers /\ file.api # "" /\ file.http # ""
      /\ stateAtChange = "NoLeader" /\ polled )
    => /\ leader_info = LeaderLockInfo(file)
       /\ callbacks # << >>
       /\ Last(callbacks) = Found(file.api)

\* C7: on-lost is never delivered twice without an on-found between.
C7_LostOncePerLoss == ~DuplicateLost

\* C8: with rescans executed one after another, the rescan that reads an
\* unparseable pointer file ends as one that found no file: NoLeader, and
\* on-lost delivered if a leader was known.
C8_CorruptLikeMissing ==
    [][ \A t \in Threads :
          (pc[t] = "r_read" /\ file = Corrupt /\ pc'[t] # "r_read")
          => /\ leader_info' = None
             /\ (callbacks' = << >> \/ Last(callbacks') = Lost) ]_vars

\* C9: a known leader has a non-empty data and control endpoint, a rescan
\* passes the validation only with both, and on-found never carries an empty
\* data endpoint.
C9_LeaderHasBothEndpoints ==
    /\ has_leader => (leader_info.api # "" /\ leader_info.http # "")
    /\ \A t \in Threads :
         pc[t] \in {"r_isnew1", "r_isnew2", "r_set", "r_reset", "r_cb"}
         => (content[t].api # "" /\ content[t].http # "")
    /\ \A i \in 1..Len(callbacks) :
         callbacks[i].cb = "found" => callbacks[i].api # ""

\* C9 witness: polling only; a poll iteration that began after a pointer lacking
\* its control endpoint was written in NoLeader has rescanned it and no leader
\* is known.
C9_Witness ==
    /\ ~watchdog
    /\ pc["poll"] = "wait"
    /\ polled
    /\ stateAtChange = "NoLeader"
    /\ file = Json("A", "")
    /\ ~has_leader

\* C10: the rescan that follows a loss by max_failures probe failures never
\* makes the pointer of the leader just lost the leader again, with on-found
\* to be delivered for it.
C10_NoRefindAfterProbeLoss ==
    ~( /\ pc["poll"] = "r_cb"
       /\ site = "threshold"
       /\ probed # None
       /\ LeaderLockInfo(content["poll"]) = probed
       /\ leader_info = probed
       /\ is_new["poll"] )

\* C11: no thread of the watcher is inside a user callback (ready or
\* disconnected) while it holds the consumer's mutex, and none waits in
\* is_connected() for the mutex it holds itself.
C11_CallbacksOutsideLock ==
    \A t \in Threads :
        /\ hpc[t] \in {"c_ready", "d_notify"} => lock # t
        /\ ~(hpc[t] = "i_lock" /\ lock = t)

\* C12: with a watcher (no override), if the pointer file stays at leader A
\* from some point on, the consumer is eventually connected: a failed
\* connection attempt is retried by the watcher's later rescans.
C12_FailedConnectRetried ==
    (<>[](override_url = "" /\ file = Json("A", "hA"))) => <>connected

\* C13: the handler of a leader-found event never tears down an open, verified
\* connection to the data endpoint the event carries.
C13_SameLeaderKeepsConnection ==
    \A t \in Threads :
        ~( /\ hpc[t] = "c_close"
           /\ pc[t] = "r_cb"
           /\ connected
           /\ client = Handle(content[t].api) )

\* C14: a get_all_videos() that found the consumer connected returns every
\* entry of the store, whatever the watcher's callbacks do to the handle
\* while it iterates.
C14_ReadNotTruncated ==
    hpc["reader"] = "g_done" => videos = NumVideos

\* C15: with an override address no watcher is ever created or started (no
\* worker, no leader, no event), the handle is only ever one for the override
\* address, and once connect() has returned no step (pointer-file changes
\* included) replaces the handle or sets the connected flag.
C15_OverrideNeverEngagesDiscovery ==
    /\ [](override_url # "" =>
            /\ pc["main"] \in {"new", "direct"}
            /\ pc["poll"] = "off" /\ pc["event"] = "off"
            /\ leader_info = None /\ ~pending
            /\ client \in {NoClient, Handle(override_url)})
    /\ [][ (override_url # "" /\ hpc["main"] = "done")
           => (client' = client /\ (connected' => connected)) ]_vars

\* C15 witness: connected through the override, and the pointer file was
\* rewritten to leader B after that; the handle is still the override's.
C15_Witness ==
    /\ override_url = "O"
    /\ hpc["main"] = "done"
    /\ stateAtChange = "DirectConnected"
    /\ file = Json("B", "hB")
    /\ connected
    /\ client = Handle("O")

\* C16: every record a discovery call returns is live at the time of the
\* call: status running and heartbeat age strictly below the staleness
\* threshold (a record exactly at the threshold is excluded).
C16_SurfacedOnlyIfLive ==
    \A r \in Returns(last_scan) : Live(r, last_scan.at)

\* C17: no discovery call (discover_all_services, discover_service by the
\* legacy file or by prefix) returns a record whose heartbeat is older than the
\* staleness threshold or unreadable, nor one whose status is not running.
C17_NoStaleNoStopped ==
    \A r \in Returns(last_scan) :
        /\ r.status = "running"
        /\ r.lastHeartbeat.k = "at"
        /\ ~(Age(r, last_scan.at) > stale_threshold)

\* C17 witness: the directory lists a fresh stopped record before a live one,
\* and discover_service by prefix returned the live one.
C17_Witness ==
    /\ Len(services_dir) = 2
    /\ services_dir[1] = Registered(Info(Svc, "h2", "stopped", At(1), "none"))
    /\ last_scan.kind = "one"
    /\ last_scan.name = Svc
    /\ last_scan.out = Info(Svc, "h1", "running", At(0), "none")

\* C18: discover_all_services returns no two records with the same name, and
\* every name that has a live record in a parseable .json file is represented.
C18_OneRecordPerName ==
    last_scan.kind = "all" =>
      /\ \A i, j \in 1..Len(last_scan.out) :
           (i # j) => last_scan.out[i].name # last_scan.out[j].name
      /\ \A i \in 1..Len(Records) :
           (Live(Records[i], last_scan.at) /\ Records[i].name # NoName)
           => Records[i].name \in Names(last_scan)

\* C18 witness: two live records of svc on two hosts, one record returned.
C18_Witness ==
    /\ last_scan.kind = "all"
    /\ Len(Records) = 2
    /\ \A i \in 1..2 : Records[i].name = Svc /\ Live(Records[i], last_scan.at)
    /\ Records[1].hostname # Records[2].hostname
    /\ Len(last_scan.out) = 1

C21_CorruptFileIsAbsent ==
    last_scan.kind = "one" =>
      ((\E i \in 1..Len(services_dir) :
          /\ \/ StartsWith(services_dir[i], last_scan.name)
             \/ (services_dir[i].fname = last_scan.name /\ services_dir[i].ext = "json")
          /\ Passes(services_dir[i], last_scan.at))
       => last_scan.out # None)

\* C22, as stated: a process reading the record file while update_status or
\* heartbeat replaces it never finds an empty or partly written file.
C22_ReaderNeverSeesTornRecord ==
    observed \notin { [kind |-> "corrupt", writing |-> w] :
                        w \in (SUBSET {"u_dump", "h_dump"}) \ {{}} }

\* C23, as stated: once unregister() has returned, no write of the heartbeat
\* thread changes the record file (only a deletion from outside does).
C23_NoWriteAfterUnregister ==
    [][rpc["caller"] = "gone" => (record' = record \/ record' = Missing)]_vars

\* What heartbeat must leave alone: every field but lastHeartbeat.
SameButHeartbeat(a, b) ==
    /\ a.name = b.name
    /\ a.hostname = b.hostname
    /\ a.baseUrl = b.baseUrl
    /\ a.status = b.status
    /\ a.role = b.role

\* C24: heartbeat() on an existing record writes back the record it read with
\* only lastHeartbeat changed: name, hostname, baseUrl, status and role (also
\* when absent) are those it read, whatever the status was.
C24_HeartbeatOnlyTimestamps ==
    [][\A t \in RegThreads :
         /\ (rpc[t] = "h_read" /\ rpc'[t] = "h_open")
              => /\ SameButHeartbeat(record, rlocal'[t].info)
                 /\ rlocal'[t].info.lastHeartbeat = At(now)
         /\ (rpc[t] = "h_open" /\ rpc'[t] = "h_dump")
              => rlocal'[t].info = rlocal[t].info
         /\ (rpc[t] = "h_dump" /\ rpc'[t] # "h_dump")
              => record' \in {rlocal[t].info, Missing}]_vars

\* C24 witness: heartbeat() called on the stopped record of an earlier run
\* left it stopped, with its old base URL and a fresh lastHeartbeat.
C24_Witness ==
    /\ rpc["caller"] = "idle"
    /\ ~stop_event
    /\ record \notin {Missing, Corrupt}
    /\ record.status = "stopped"
    /\ record.baseUrl = "V"
    /\ record.lastHeartbeat = At(now)

\* C25: a heartbeat() that finds the record file missing registers again:
\* unless the file system refuses the write, when it returns the file holds a
\* record with this process's name, hostname and baseUrl and a current
\* lastHeartbeat, and the heartbeat thread goes on waiting for its next turn.
C25_MissingRecordReRegistered ==
    [][\A t \in RegThreads :
         /\ (/\ rpc[t] \in {"u_read", "u_open", "u_dump"}
             /\ Head(rstack[t]) \in {"idle", "l_wait"}
             /\ rpc'[t] = Head(rstack[t]))
              => /\ record' \notin {Missing, Corrupt}
                 /\ record'.name = Svc
                 /\ record'.hostname = "h1"
                 /\ record'.baseUrl = "U"
                 /\ ~_is_service_stale(record', now)
                 /\ (t = "beat") => (rpc'[t] = "l_wait")
         /\ (/\ rpc[t] = "g_open"
             /\ Head(rstack[t]) = "h_update"
             /\ rpc'[t] \notin {"g_open", "g_dump"})
              => dir_mode # "ok"]_vars

\* C25 witness: the application's heartbeat() found no record file and left a
\* running record of this process stamped now.
C25_Witness ==
    /\ rpc["caller"] = "idle"
    /\ ~sd_started
    /\ raised = "none"
    /\ record = _build_service_info("running", now)

\* C26, as stated: no registrar operation raises to its caller.
C26_NothingRaised == raised = "none"

\* C27, as stated: a get_leader_info() that begins after _on_file_change has
\* handled an event returns no descriptor answered before that event.
C27_NoDescriptorFromBeforeEvent ==
    \A t \in ClientThreads :
        (cpc[t] = "i_ret" /\ clocal[t].urls # None)
        => clocal[t].urls.epoch >= clocal[t].floor

\* C28: with a successful fetch stamped t and no file-change event handled
\* since, a read whose clock reading is before t + TTL is answered from the
\* cache without a request, and a read at or after t + TTL sends a request.
C28_CacheServesWithinTTL ==
    \A t \in ClientThreads :
        /\ (fetched # None /\ cpc[t] = "f_c3")
             => clocal[t].now < fetched.t + _urls_cache_ttl
        /\ (fetched # None /\ cpc[t] = "f_open")
             => clocal[t].now >= fetched.t + _urls_cache_ttl
        /\ (cpc[t] = "i_ret" /\ clocal[t].hit)
             => (~clocal[t].requested /\ clocal[t].urls = cached_urls)

\* C28 witness: a read exactly TTL seconds after the stamp of the last fetch
\* is about to send a request.
C28_Witness ==
    /\ cpc["app"] = "f_open"
    /\ fetched # None
    /\ clocal["app"].now = fetched.t + _urls_cache_ttl

\* C29: get_leader_info() returns None when the pointer file is missing or
\* empty and when the request for the descriptor fails.
C29_NoLeaderIsNone ==
    \A t \in ClientThreads :
        (cpc[t] = "i_ret" /\ (clocal[t].api_url = "" \/ clocal[t].failed))
        => clocal[t].urls = None

\* C29 witness: the request failed while an expired descriptor was still in
\* the cache, and None is returned.
C29_Witness ==
    /\ cpc["app"] = "i_ret"
    /\ clocal["app"].failed
    /\ cached_urls # None
    /\ clocal["app"].urls = None

\* C30, as stated: wait_for_leader raises only if no leader was there at any
\* moment before the deadline.
C30_RaisedOnlyIfNoLeader == wait.state = "raised" => ~wait.chance

\* C30, amended: wait_for_leader ends; it raises only once the
\* deadline has passed, and it returns the descriptor as soon as one of its
\* polls, each begun before the deadline, finds one.
C30_WaitEnds ==
    /\ [](wait.state = "raised" => Expired(clock, wait.start, wait.timeout))
    /\ [][(/\ cpc["app"] = "i_ret"
           /\ clocal["app"].ctx = "wait"
           /\ clocal["app"].urls # None
           /\ cpc'["app"] # "i_ret")
          => wait'.state = "returned"]_vars
    /\ ((wait.state = "waiting") ~> (wait.state \in {"returned", "raised"}))

\* C30 witness: a wait with a deadline in the future raised although a leader
\* had been there before the deadline.
C30_Witness ==
    /\ wait.state = "raised"
    /\ wait.timeout > 0
    /\ wait.chance

\* C40, as stated: discover_service(name) returns only a record whose name
\* field is the requested name.
C40_ReturnedRecordHasRequestedName ==
    (last_scan.kind = "one" /\ last_scan.out # None)
    => last_scan.out.name = last_scan.name

\* C39, as stated: a descriptor get_leader_info() returns for the control URL
\* it read from the pointer file was fetched from that URL.
C39_DescriptorFetchedFromItsUrl ==
    \A t \in ClientThreads :
        (cpc[t] = "i_ret" /\ clocal[t].urls # None)
        => clocal[t].urls.from = clocal[t].api_url

\* C34, as stated: whenever no rescan, probe or callback is in progress, the
\* last callback delivered is on-found(L) when the watcher holds leader L and
\* on-lost when it holds none.
C34_LastCallbackMatchesState ==
    (is_started /\ callbacks # << >> /\ \A t \in Threads : ~Busy(t))
    => Last(callbacks) = IF leader_info # None THEN Found(leader_info.api) ELSE Lost

\* C35, as stated: a rescan that observes the leader the watcher already
\* holds leaves the consecutive-failure counter as it is.
C35_SameLeaderRescanKeepsCounter ==
    [][\A t \in Threads :
          (pc[t] = "r_reset" /\ pc'[t] = "r_cb" /\ ~is_new[t])
          => consecutive_failures' = consecutive_failures]_vars

\* C37, as stated: in every reachable state of LeaderStorage the connected
\* flag being true implies that the connection handle is not null.
C37_ConnectedHasHandle == connected => client # NoClient

\* C37, amended: whenever no thread is inside the mutex, connected true
\* implies a handle; the flag becomes true only in _connect_to_redis after the
\* ping of the handle opened there, and is_connected() changes nothing but the
\* flag, from true to false.
C37_ConnectedHasHandleOutsideMutex ==
    /\ [](lock = "free" => (connected => client # NoClient))
    /\ [][(~connected /\ connected')
          => \E t \in Threads :
                 /\ hpc[t] = "c_set" /\ hpc'[t] = "c_ready"
                 /\ client = Handle(ConnectUrl(t)) /\ client' = client]_vars
    /\ [][\A u \in Callers :
             (hpc[u] = "i_check" /\ hpc'[u] # "i_check")
             => ((connected' => connected) /\ client' = client)]_vars

\* C37 witness: is_connected() has answered True to the reader on a
\* connected consumer.
C37_Witness ==
    /\ hpc["reader"] = "g_scan"
    /\ connected
    /\ client # NoClient
    /\ lock = "free"

\* C38, as stated: in a started watcher, also one that was stopped and
\* started again, a poll worker is running.
C38_StartedWatcherPolls == is_started => pc["poll"] # "off"

\* C32: once the stop event is set, the poll worker of the watcher and the
\* heartbeat thread of the registrar end: at the loop check that follows they
\* start no further iteration, and a worker that has ended makes no rescan,
\* probe, callback or record write.
C32_WorkersEndOnStop ==
    /\ (part = "watcher" /\ ld_stop_event) ~> (pc["poll"] = "off")
    /\ (part = "registrar" /\ stop_event) ~> (rpc["beat"] = "off")
    /\ [][(ld_stop_event /\ pc["poll"] = "loop")
          => pc'["poll"] \in {"loop", "off"}]_vars
    /\ [][(stop_event /\ rpc["beat"] = "l_check")
          => rpc'["beat"] \in {"l_check", "off"}]_vars
    /\ [][(pc["main"] = "stopped" /\ pc'["main"] = "stopped"
           /\ pc["poll"] = "off" /\ pc["event"] = "off")
          => UNCHANGED << leader_info, consecutive_failures, callbacks >>]_vars
    /\ [][(rpc["caller"] = "gone" /\ rpc["beat"] = "off")
          => (record' = record \/ DeleteRecord)]_vars

\* C32 witness: stop() has returned with the poll worker ended at its loop
\* check.
C32_Witness ==
    /\ part = "watcher"
    /\ ld_stop_event
    /\ pc["main"] = "stopped"
    /\ pc["poll"] = "off"
    /\ callbacks # << >>

\* C36, as stated: after disconnect() has returned the consumer stays
\* disconnected, the flag false and the handle null, and no callback of a
\* watcher thread opens a connection.
C36_DisconnectedStays ==
    pc["main"] = "disconnected" => (~connected /\ client = NoClient)

\* C31, as stated: get_status() returns in every state of the consumer and
\* of the watcher a dict whose `connected` is a boolean and whose `leader` is a
\* descriptor or null, and never blocks forever: it never waits for the mutex
\* while the thread that holds it waits for the same mutex.
C31_StatusAlwaysReturns ==
    /\ status_dict.connected \in BOOLEAN
    /\ status_dict.leader \in {None} \cup { LeaderLockInfo(d) : d \in Pointers }
    /\ ~( /\ hpc["status"] \in {"i_lock", "s_count"}
          /\ lock \in Threads
          /\ hpc[lock] = "i_lock" )


\* C33: single-writer discipline. No step of the watcher, the consumer, the
\* scanner, the registrar or the light client changes the pointer file: it
\* changes only when the coordinator writes or removes it. No step changes a
\* record file of another process. The registrar's own record file changes
\* only by a write of register / update_status / heartbeat, or when it is
\* removed from outside.
C33_SingleWriter ==
    [][ /\ (file' # file) => (\E c \in FileContents : FileChanged(c))
        /\ (info_file' # info_file) => ChangeInfoFile
        /\ services_dir' = services_dir
        /\ (record' # record) =>
               \/ DeleteRecord
               \/ /\ part = "registrar"
                  /\ \E t \in RegThreads :
                       /\ rpc[t] \in {"g_open", "g_dump", "u_open", "u_dump",
                                      "h_open", "h_dump"}
                       /\ RegStep(t) ]_vars

\* C33 witness: the registrar has written its record and unregistered next to
\* the record files of two other processes.
C33_Witness ==
    /\ part = "registrar"
    /\ Len(services_dir) = 2
    /\ rpc["caller"] = "gone"
    /\ record \notin {Missing, Corrupt}
    /\ record \notin PreviousRecords

====
